---- MODULE Spec2Model ----
(***************************************************************************)
(* X3DH key agreement, the in-memory directory and the client key store   *)
(* of brongnal (src/src/main.rs, src/client/src/lib.rs,                    *)
(* src/native/server/src/sqlite_brongnal.rs).                              *)
(*                                                                         *)
(* Curve25519 is abstracted to the multiplicative group of the integers   *)
(* modulo the prime P with generator G: a secret is an exponent, a public *)
(* key is G^secret, and a Diffie-Hellman output is public^secret.  An     *)
(* Ed25519 public key is the image of the X25519 public key of the same   *)
(* scalar under the birational map y = (u-1)/(u+1); to_montgomery is its  *)
(* inverse u = (1+y)/(1-y), computed in the field of P elements.          *)
(* Hashes (HKDF, Blake2b) are injective symbolic terms.                   *)
(***************************************************************************)
EXTENDS Integers, Sequences, FiniteSets, TLC

VARIABLES
    server,     \* InMemoryServer: identity_key, current_pre_key, one_time_pre_keys, messages
    clients,    \* InMemoryClient / MemoryClient per identity
    rng,        \* next value the random number generator hands out
    bundles,    \* the SignedPreKeys that add_one_time_keys has returned to its callers
    retrieved,  \* per identity, the messages retrieve_messages has returned to it
    frame,      \* the call frame of an x3dh_initiate_recv in progress
    last,       \* the last completed call: its name, arguments and result
    audit,      \* history: keys added to and handed out of each pool, origin of session keys
    db,         \* SqliteStorage: the tables user, pre_key and message
    clock,      \* the system clock, in seconds
    calls,      \* calls in progress on the shared SqliteStorage and the holder of its mutex
    probe,      \* inputs and outputs of the pure key-agreement functions
    native      \* the native client: main loop, listener task, key-store lock, output channel

vars == <<server, clients, rng, bundles, retrieved, frame, last, audit, db, clock, calls, probe, native>>

(***************************************************************************)
(* Option and Result                                                       *)
(***************************************************************************)
None == <<>>

Some(x) == <<x>>

IsSome(o) == Len(o) = 1

Unwrap(o) == o[1]

Ok(v) == [ok |-> TRUE, val |-> v, err |-> ""]

Err(e) == [ok |-> FALSE, val |-> None, err |-> e]

(***************************************************************************)
(* Group arithmetic                                                        *)
(***************************************************************************)
P == 101

G == 2

RECURSIVE ModExp(_, _)
ModExp(b, e) ==
    IF e = 0 THEN 1
    ELSE LET h == ModExp(b, e \div 2)
             s == (h * h) % P
         IN IF e % 2 = 1 THEN (s * b) % P ELSE s

ModInv(x) == ModExp(x % P, P - 2)

\* X25519PublicKey::from(&secret)
PublicKeyFrom(secret) == ModExp(G, secret)

\* secret.diffie_hellman(&public)
diffie_hellman(secret, public) == ModExp(public, secret)

\* a faulty conversion that uses the Edwards encoding as the Montgomery coordinate
to_montgomery_unconverted(y) == y

\* VerifyingKey::to_montgomery: u = (1 + y) / (1 - y)
to_montgomery(y) == ((1 + y) * ModInv(P + 1 - y)) % P

\* the Edwards encoding of the point with Montgomery coordinate u: y = (u - 1) / (u + 1)
to_edwards(u) == ((u + P - 1) * ModInv(u + 1)) % P

\* SigningKey::to_scalar_bytes: the scalar reused as an X25519 static secret
to_scalar_bytes(signing_key) == signing_key

\* SigningKey::verifying_key
verifying_key(signing_key) == to_edwards(PublicKeyFrom(to_scalar_bytes(signing_key)))

(***************************************************************************)
(* Bundle codec (bundle.rs) and signatures                                 *)
(***************************************************************************)
\* a signature of random bytes, made by no key
BadSignature == [signer |-> 0, msg |-> <<>>]

\* sign_bundle(signing_key, prekeys) signs the concatenation of the public halves
sign_bundle(signing_key, publics) ==
    [signer |-> verifying_key(signing_key), msg |-> publics]

\* verify_bundle(identity_key, publics, signature)
verify_bundle(identity_key, publics, signature) ==
    IF signature.signer = identity_key /\ signature.msg = publics
    THEN Ok(None) ELSE Err("BundleVerifyFailed")

(***************************************************************************)
(* KDF, Blake2b and AEAD                                                   *)
(***************************************************************************)
\* let f = [0xFF, 32];
F == <<255, 32>>

\* HKDF-SHA256(salt = 0^32, ikm, info = "Brongnal"), 32 bytes of output
Hkdf(ikm) == [ikm |-> ikm, b2 |-> <<>>]

kdf(km) ==
    LET f == F
        ikm == f \o km
    IN Hkdf(ikm)

\* Blake2b512 of a 32-byte key: bytes [0..32] and [32..] of the digest
Blake2bLow(key) == [key EXCEPT !.b2 = Append(@, "lo")]

Blake2bHigh(key) == [key EXCEPT !.b2 = Append(@, "hi")]

\* encrypt_data(Payload { msg, aad }, cipher) (aead.rs)
encrypt_data(msg, aad, cipher) ==
    [key |-> cipher, aad |-> aad, msg |-> msg, intact |-> TRUE]

\* decrypt_data(ciphertext, aad, cipher) (aead.rs)
decrypt_data(ciphertext, aad, cipher) ==
    IF ciphertext.intact /\ ciphertext.key = cipher /\ ciphertext.aad = aad
    THEN Ok(ciphertext.msg) ELSE Err("DecryptFailed")

\* one flipped byte of a ciphertext
Tampered(ciphertext) == [ciphertext EXCEPT !.intact = FALSE]

(***************************************************************************)
(* X3DH key derivation                                                     *)
(***************************************************************************)
\* fn x3dh_initiate_send_sk; reusable_secret is X25519ReusableSecret::random()
x3dh_initiate_send_sk(identity_key, signed_pre_key, one_time_key, sender_key, reusable_secret) ==
    LET \* let _ = verify_bundle(..).map_err(..): the result is dropped
        dropped == verify_bundle(identity_key, <<signed_pre_key.pre_key>>,
                                 signed_pre_key.signature)
        dh1 == diffie_hellman(to_scalar_bytes(sender_key), signed_pre_key.pre_key)
        dh2 == diffie_hellman(reusable_secret, to_montgomery(identity_key))
        dh3 == diffie_hellman(reusable_secret, signed_pre_key.pre_key)
        secret_key ==
            IF IsSome(one_time_key)
            THEN LET dh4 == diffie_hellman(reusable_secret, Unwrap(one_time_key))
                 IN kdf(<<dh1, dh2, dh3, dh4>>)
            ELSE kdf(<<dh1, dh2, dh3>>)
    IN Ok([ephemeral_key |-> PublicKeyFrom(reusable_secret), secret_key |-> secret_key])

\* a faulty lookup that returns the secret and leaves it in the map
fetch_keep_one_time_secret_key(one_time_pre_keys, one_time_key) ==
    IF one_time_key \in DOMAIN one_time_pre_keys
    THEN [result |-> Ok(one_time_pre_keys[one_time_key]),
          one_time_pre_keys |-> one_time_pre_keys]
    ELSE [result |-> Err("UnknownOneTimeKey"), one_time_pre_keys |-> one_time_pre_keys]

\* OTKManager::fetch_wipe_one_time_secret_key on a HashMap<X25519PublicKey, X25519StaticSecret>:
\* the result and the map after the call
fetch_wipe_one_time_secret_key(one_time_pre_keys, one_time_key) ==
    IF one_time_key \in DOMAIN one_time_pre_keys
    THEN [result |-> Ok(one_time_pre_keys[one_time_key]),
          one_time_pre_keys |->
              [k \in (DOMAIN one_time_pre_keys) \ {one_time_key} |-> one_time_pre_keys[k]]]
    ELSE [result |-> Err("UnknownOneTimeKey"), one_time_pre_keys |-> one_time_pre_keys]

\* a faulty derivation that goes on without DH4 when the one-time key is not in the map
x3dh_initiate_recv_sk_without_otk(one_time_pre_keys, sender_identity_key, ephemeral_key, otk, identity_key, pre_key) ==
    LET dh1 == diffie_hellman(pre_key, to_montgomery(sender_identity_key))
        dh2 == diffie_hellman(to_scalar_bytes(identity_key), ephemeral_key)
        dh3 == diffie_hellman(pre_key, ephemeral_key)
        w == IF IsSome(otk)
             THEN fetch_wipe_one_time_secret_key(one_time_pre_keys, Unwrap(otk))
             ELSE [result |-> Err("UnknownOneTimeKey"), one_time_pre_keys |-> one_time_pre_keys]
    IN IF w.result.ok
       THEN [result |-> Ok(kdf(<<dh1, dh2, dh3, diffie_hellman(w.result.val, ephemeral_key)>>)),
             one_time_pre_keys |-> w.one_time_pre_keys]
       ELSE [result |-> Ok(kdf(<<dh1, dh2, dh3>>)), one_time_pre_keys |-> one_time_pre_keys]

\* a faulty derivation that reads the one-time secret and leaves the wipe for later
x3dh_initiate_recv_sk_late_wipe(one_time_pre_keys, sender_identity_key, ephemeral_key, otk, identity_key, pre_key) ==
    LET dh1 == diffie_hellman(pre_key, to_montgomery(sender_identity_key))
        dh2 == diffie_hellman(to_scalar_bytes(identity_key), ephemeral_key)
        dh3 == diffie_hellman(pre_key, ephemeral_key)
    IN IF IsSome(otk)
       THEN IF Unwrap(otk) \in DOMAIN one_time_pre_keys
            THEN [result |-> Ok(kdf(<<dh1, dh2, dh3,
                                     diffie_hellman(one_time_pre_keys[Unwrap(otk)],
                                                    ephemeral_key)>>)),
                  one_time_pre_keys |-> one_time_pre_keys]
            ELSE [result |-> Err("UnknownOneTimeKey"),
                  one_time_pre_keys |-> one_time_pre_keys]
       ELSE [result |-> Ok(kdf(<<dh1, dh2, dh3>>)),
             one_time_pre_keys |-> one_time_pre_keys]

\* fn x3dh_initiate_recv_sk: the result and the client's one-time-key map after the call
x3dh_initiate_recv_sk(one_time_pre_keys, sender_identity_key, ephemeral_key, otk, identity_key, pre_key) ==
    LET dh1 == diffie_hellman(pre_key, to_montgomery(sender_identity_key))
        dh2 == diffie_hellman(to_scalar_bytes(identity_key), ephemeral_key)
        dh3 == diffie_hellman(pre_key, ephemeral_key)
    IN IF IsSome(otk)
       THEN LET w == fetch_wipe_one_time_secret_key(one_time_pre_keys, Unwrap(otk))
            IN IF w.result.ok
               THEN LET dh4 == diffie_hellman(w.result.val, ephemeral_key)
                    IN [result |-> Ok(kdf(<<dh1, dh2, dh3, dh4>>)),
                        one_time_pre_keys |-> w.one_time_pre_keys]
               ELSE [result |-> Err(w.result.err),
                     one_time_pre_keys |-> w.one_time_pre_keys]
       ELSE [result |-> Ok(kdf(<<dh1, dh2, dh3>>)),
             one_time_pre_keys |-> one_time_pre_keys]

(***************************************************************************)
(* State after construction                                                *)
(***************************************************************************)
Identity == {"Alice", "Bob"}

EmptyMap == <<>>

\* HashMap::insert
Insert(map, key, value) ==
    [k \in (DOMAIN map) \cup {key} |-> IF k = key THEN value ELSE map[k]]

\* HashMap::remove
Remove(map, key) == [k \in (DOMAIN map) \ {key} |-> map[k]]

\* one more occurrence of key in a map of counts
Count(map, key) == Insert(map, key, IF key \in DOMAIN map THEN map[key] + 1 ELSE 1)

\* one more occurrence of each key of a list
RECURSIVE CountAll(_, _)
CountAll(map, keys) ==
    IF keys = <<>> THEN map ELSE CountAll(Count(map, Head(keys)), Tail(keys))

\* InMemoryServer::new
InMemoryServer_new ==
    [identity_key |-> EmptyMap, current_pre_key |-> EmptyMap,
     one_time_pre_keys |-> EmptyMap, messages |-> EmptyMap]

\* InMemoryClient { identity_key, pre_key, one_time_pre_keys: HashMap::new(),
\* session_keys: HashMap::new() } with the two keys drawn from the generator
InMemoryClient_new(identity_key, pre_key) ==
    [identity_key |-> identity_key, pre_key |-> pre_key,
     one_time_pre_keys |-> EmptyMap, session_keys |-> EmptyMap]

\* the tables SqliteStorage::new creates
SqliteStorage_new == [user |-> EmptyMap, pre_key |-> EmptyMap, message |-> EmptyMap]

NoCall == [op |-> "none"]

Idle == [pc |-> "idle"]

NoProbe == [done |-> FALSE]

\* the number of worker threads that call into the shared SqliteStorage
MaxThreads == 2

Threads == 1..MaxThreads

\* no call in progress: the mutex of Arc<Mutex<Connection>> is free
NoCalls == [mutex |-> None, pool_before |-> EmptyMap, queue_before |-> EmptyMap,
            thread |-> [t \in Threads |-> [pc |-> "idle"]]]

\* the native client after main has registered and spawned the listener: the main
\* loop is at its select, the listener awaits the stream, the lock is free and the
\* output channel is empty
NativeClient_new ==
    [main |-> "select", listener |-> "stream", lock |-> None, channel |-> 0,
     commands |-> 0, incoming |-> 0]

InitState ==
    /\ server = InMemoryServer_new
    /\ native = NativeClient_new
    /\ clients = [c \in Identity |->
                     IF c = "Alice" THEN InMemoryClient_new(1, 2)
                     ELSE InMemoryClient_new(3, 4)]
    /\ rng = 5
    /\ bundles = {}
    /\ retrieved = [c \in Identity |-> <<>>]
    /\ frame = Idle
    /\ last = NoCall
    /\ db = SqliteStorage_new
    /\ clock = 0
    /\ calls = NoCalls
    /\ audit = [added |-> [c \in Identity |-> EmptyMap],
                issued |-> [c \in Identity |-> EmptyMap],
                db_added |-> [c \in Identity |-> EmptyMap],
                db_issued |-> [c \in Identity |-> EmptyMap],
                db_order |-> [c \in Identity |-> <<>>],
                accepted |-> [c \in Identity |-> <<>>],
                posts |-> 0,
                wiped |-> [c \in Identity |-> EmptyMap],
                origin |-> [c \in Identity |-> EmptyMap]]

(***************************************************************************)
(* InMemoryServer (impl X3DHServer): each operator gives the result of the *)
(* call and the server after it.                                           *)
(***************************************************************************)
set_spk(srv, identity, ik, spk) ==
    LET v == verify_bundle(ik, <<spk.pre_key>>, spk.signature)
    IN IF ~v.ok THEN [result |-> Err(v.err), server |-> srv]
       ELSE [result |-> Ok(None),
             server |-> [srv EXCEPT !.identity_key = Insert(@, identity, ik),
                                    !.current_pre_key = Insert(@, identity, spk)]]

publish_otk_bundle(srv, identity, ik, otk_bundle) ==
    LET v == verify_bundle(ik, otk_bundle.pre_keys, otk_bundle.signature)
        \* try_insert(identity, Vec::new()) keeps an existing pool
        pools == IF identity \in DOMAIN srv.one_time_pre_keys
                 THEN srv.one_time_pre_keys
                 ELSE Insert(srv.one_time_pre_keys, identity, <<>>)
    IN IF ~v.ok THEN [result |-> Err(v.err), server |-> srv]
       ELSE [result |-> Ok(None),
             server |-> [srv EXCEPT !.one_time_pre_keys =
                            [pools EXCEPT ![identity] = @ \o otk_bundle.pre_keys]]]

\* a faulty fetch that reads the last one-time key of the pool and leaves it there
fetch_prekey_bundle_peek(srv, recipient_identity) ==
    IF recipient_identity \notin DOMAIN srv.identity_key
    THEN [result |-> Err("Server has IK."), server |-> srv]
    ELSE IF recipient_identity \notin DOMAIN srv.current_pre_key
    THEN [result |-> Err("Server has spk."), server |-> srv]
    ELSE LET otks == IF recipient_identity \in DOMAIN srv.one_time_pre_keys
                     THEN srv.one_time_pre_keys[recipient_identity] ELSE <<>>
         IN [result |-> Ok([identity_key |-> srv.identity_key[recipient_identity],
                            otk |-> IF Len(otks) > 0 THEN Some(otks[Len(otks)]) ELSE None,
                            spk |-> srv.current_pre_key[recipient_identity]]),
             server |-> srv]

\* a faulty fetch that takes the one-time key before it looks the identity up
fetch_prekey_bundle_pop_early(srv, recipient_identity) ==
    LET has == recipient_identity \in DOMAIN srv.one_time_pre_keys
        otks == IF has THEN srv.one_time_pre_keys[recipient_identity] ELSE <<>>
        otk == IF Len(otks) > 0 THEN Some(otks[Len(otks)]) ELSE None
        popped == IF Len(otks) > 0
                  THEN [srv EXCEPT !.one_time_pre_keys[recipient_identity] =
                           SubSeq(otks, 1, Len(otks) - 1)]
                  ELSE srv
    IN IF recipient_identity \notin DOMAIN srv.identity_key
       THEN [result |-> Err("Server has IK."), server |-> popped]
       ELSE IF recipient_identity \notin DOMAIN srv.current_pre_key
       THEN [result |-> Err("Server has spk."), server |-> popped]
       ELSE [result |-> Ok([identity_key |-> srv.identity_key[recipient_identity],
                            otk |-> otk,
                            spk |-> srv.current_pre_key[recipient_identity]]),
             server |-> popped]

fetch_prekey_bundle(srv, recipient_identity) ==
    IF recipient_identity \notin DOMAIN srv.identity_key
    THEN [result |-> Err("Server has IK."), server |-> srv]
    ELSE IF recipient_identity \notin DOMAIN srv.current_pre_key
    THEN [result |-> Err("Server has spk."), server |-> srv]
    ELSE LET identity_key == srv.identity_key[recipient_identity]
             spk == srv.current_pre_key[recipient_identity]
             has == recipient_identity \in DOMAIN srv.one_time_pre_keys
             otks == IF has THEN srv.one_time_pre_keys[recipient_identity] ELSE <<>>
             \* Vec::pop takes the last element
             otk == IF Len(otks) > 0 THEN Some(otks[Len(otks)]) ELSE None
         IN [result |-> Ok([identity_key |-> identity_key, otk |-> otk, spk |-> spk]),
             server |-> IF Len(otks) > 0
                        THEN [srv EXCEPT !.one_time_pre_keys[recipient_identity] =
                                 SubSeq(otks, 1, Len(otks) - 1)]
                        ELSE srv]

\* a faulty send_message that puts the message at the front of the inbox
send_message_front(srv, recipient_identity, message) ==
    LET boxes == IF recipient_identity \in DOMAIN srv.messages THEN srv.messages
                 ELSE Insert(srv.messages, recipient_identity, <<>>)
    IN [result |-> Ok(None),
        server |-> [srv EXCEPT !.messages = [boxes EXCEPT ![recipient_identity] = <<message>> \o @]]]

send_message(srv, recipient_identity, message) ==
    LET boxes == IF recipient_identity \in DOMAIN srv.messages
                 THEN srv.messages
                 ELSE Insert(srv.messages, recipient_identity, <<>>)
    IN [result |-> Ok(None),
        server |-> [srv EXCEPT !.messages =
                       [boxes EXCEPT ![recipient_identity] = Append(@, message)]]]

\* a faulty retrieval that returns the inbox and leaves it in place
retrieve_messages_keep(srv, identity) ==
    [result |-> IF identity \in DOMAIN srv.messages THEN srv.messages[identity] ELSE <<>>,
     server |-> srv]

retrieve_messages(srv, identity) ==
    [result |-> IF identity \in DOMAIN srv.messages THEN srv.messages[identity] ELSE <<>>,
     server |-> [srv EXCEPT !.messages = Remove(@, identity)]]

(***************************************************************************)
(* Client key store: MemoryClient (client/src/lib.rs) and the session keys *)
(* of InMemoryClient (src/main.rs)                                         *)
(***************************************************************************)
\* MemoryClient::get_spk
get_spk(client) ==
    [pre_key |-> PublicKeyFrom(client.pre_key),
     signature |-> sign_bundle(client.identity_key, <<PublicKeyFrom(client.pre_key)>>)]

\* create_prekey_bundle(signing_key, n): n fresh key pairs, the generator handing out
\* first, first + 1, ...; the signature is over the public halves in order
create_prekey_bundle(signing_key, n, first) ==
    LET bundle == [i \in 1..n |-> <<first + i - 1, PublicKeyFrom(first + i - 1)>>]
    IN [bundle |-> bundle,
        signature |-> sign_bundle(signing_key, [i \in 1..n |-> bundle[i][2]])]

\* a faulty replenishment that starts the map afresh with the new keys
add_one_time_keys_afresh(client, num_keys, first) ==
    LET otks == create_prekey_bundle(client.identity_key, num_keys, first)
        pre_keys == [i \in 1..num_keys |-> otks.bundle[i][2]]
    IN [result |-> [pre_keys |-> pre_keys, signature |-> otks.signature],
        client |-> [client EXCEPT !.one_time_pre_keys =
                       [k \in {pre_keys[i] : i \in 1..num_keys} |->
                           (CHOOSE i \in 1..num_keys : pre_keys[i] = k) + first - 1]]]

\* MemoryClient::add_one_time_keys: the returned SignedPreKeys and the client after the call
add_one_time_keys(client, num_keys, first) ==
    LET otks == create_prekey_bundle(client.identity_key, num_keys, first)
        pre_keys == [i \in 1..num_keys |-> otks.bundle[i][2]]
        added == [k \in {pre_keys[i] : i \in 1..num_keys} |->
                     (CHOOSE i \in 1..num_keys : pre_keys[i] = k) + first - 1]
    IN [result |-> [pre_keys |-> pre_keys, signature |-> otks.signature],
        client |-> [client EXCEPT !.one_time_pre_keys =
                       [k \in (DOMAIN @) \cup (DOMAIN added) |->
                           IF k \in DOMAIN added THEN added[k] ELSE @[k]]]]

\* SessionKeyManager for InMemoryClient
set_session_key(session_keys, recipient_identity, secret_key) ==
    Insert(session_keys, recipient_identity, secret_key)

\* the stored key is overwritten with the first half of its Blake2b digest and the
\* cipher is keyed with the second half
get_encryption_key(session_keys, recipient_identity) ==
    IF recipient_identity \in DOMAIN session_keys
    THEN LET key == session_keys[recipient_identity]
         IN [result |-> Ok(Blake2bHigh(key)),
             session_keys |-> [session_keys EXCEPT ![recipient_identity] = Blake2bLow(key)]]
    ELSE [result |-> Err("SessionKeyManager does not contain"),
          session_keys |-> session_keys]

destroy_session_key(session_keys, peer) == Remove(session_keys, peer)

(***************************************************************************)
(* X3DH sender and receiver halves                                         *)
(***************************************************************************)
\* SigningKey::to_bytes: the secret key bytes
SigningKey_to_bytes(signing_key) == signing_key

\* VerifyingKey::to_bytes
VerifyingKey_to_bytes(key) == key

\* server.fetch_prekey_bundle on `server: &mut dyn X3DHServer`: the InMemoryServer, or a
\* server that hands its bundle on with the SPK signature replaced by random bytes
ServerFetch(srv, recipient_identity, replace_signature) ==
    LET f == fetch_prekey_bundle(srv, recipient_identity)
    IN IF f.result.ok /\ replace_signature
       THEN [f EXCEPT !.result.val.spk.signature = BadSignature]
       ELSE f

\* fn x3dh_initiate_send: the result, the server and the client after the call
x3dh_initiate_send(srv, client, recipient_identity, sender_key, message, reusable_secret, replace_signature) ==
    LET f == ServerFetch(srv, recipient_identity, replace_signature)
    IN IF ~f.result.ok
       THEN [result |-> Err(f.result.err), server |-> f.server, client |-> client]
       ELSE
       LET identity_key == f.result.val.identity_key
           otk == f.result.val.otk
           spk == f.result.val.spk
           sk == x3dh_initiate_send_sk(identity_key, spk, otk, sender_key, reusable_secret)
       IN IF ~sk.ok
          THEN [result |-> Err(sk.err), server |-> f.server, client |-> client]
          ELSE
          LET associated_data == <<VerifyingKey_to_bytes(verifying_key(sender_key)),
                                   VerifyingKey_to_bytes(identity_key)>>
              recorded == set_session_key(client.session_keys, recipient_identity,
                                          sk.val.secret_key)
              enc == get_encryption_key(recorded, recipient_identity)
              after == [client EXCEPT !.session_keys = enc.session_keys]
          IN IF ~enc.result.ok
             THEN [result |-> Err(enc.result.err), server |-> f.server, client |-> after]
             ELSE [result |-> Ok([identity_key |-> identity_key,
                                  ephemeral_key |-> sk.val.ephemeral_key,
                                  otk |-> otk,
                                  ciphertext |-> encrypt_data(message, associated_data,
                                                              enc.result.val)]),
                   server |-> f.server, client |-> after]

\* a faulty end of the receive that keeps the session key when decryption fails
x3dh_initiate_recv_finish_keeping(session_keys, sender, sender_identity_key, identity_key, secret_key, ciphertext) ==
    [result |-> decrypt_data(ciphertext,
                             <<VerifyingKey_to_bytes(sender_identity_key),
                               SigningKey_to_bytes(identity_key)>>,
                             secret_key),
     session_keys |-> session_keys]

\* the end of fn x3dh_initiate_recv, from the associated data on: the result and the
\* session keys after it
x3dh_initiate_recv_finish(session_keys, sender, sender_identity_key, identity_key, secret_key, ciphertext) ==
    LET associated_data == <<VerifyingKey_to_bytes(sender_identity_key),
                             SigningKey_to_bytes(identity_key)>>
        \* ChaCha20Poly1305::new_from_slice(&secret_key)
        cipher == secret_key
        d == decrypt_data(ciphertext, associated_data, cipher)
    IN IF d.ok THEN [result |-> d, session_keys |-> session_keys]
       ELSE [result |-> d, session_keys |-> destroy_session_key(session_keys, sender)]

(***************************************************************************)
(* Operations                                                              *)
(***************************************************************************)
MaxDraws == 3

MaxPool == 3

Plaintext == {"Hello"}

\* the number of values the generator has handed out since construction
Drawn == rng - 5

\* every one-time key add_one_time_keys has generated
OneTimeKeys == UNION {{b.pre_keys[i] : i \in DOMAIN b.pre_keys} : b \in bundles}

Pool(srv, identity) ==
    IF identity \in DOMAIN srv.one_time_pre_keys THEN srv.one_time_pre_keys[identity] ELSE <<>>

Inbox(srv, identity) ==
    IF identity \in DOMAIN srv.messages THEN srv.messages[identity] ELSE <<>>

\* server.set_spk(identity, ik, spk) with the keys of the client of that identity, or with
\* a signature of random bytes
SetSpk(identity, forged) ==
    /\ frame = Idle
    /\ LET c == identity
           ik == verifying_key(clients[c].identity_key)
           spk == IF forged THEN [get_spk(clients[c]) EXCEPT !.signature = BadSignature]
                  ELSE get_spk(clients[c])
           r == set_spk(server, identity, ik, spk)
       IN /\ server' = r.server
          /\ last' = [op |-> "set_spk", identity |-> identity, result |-> r.result]
    /\ UNCHANGED <<native, clients, rng, bundles, retrieved, frame, audit, db, clock, calls, probe>>

\* client.add_one_time_keys(num_keys)
AddOneTimeKeys(c, num_keys) ==
    /\ frame = Idle
    /\ Drawn + num_keys <= MaxDraws
    /\ LET r == add_one_time_keys(clients[c], num_keys, rng)
       IN /\ clients' = [clients EXCEPT ![c] = r.client]
          /\ bundles' = bundles \cup {r.result}
          /\ last' = [op |-> "add_one_time_keys", client |-> c, result |-> Ok(r.result)]
    /\ rng' = rng + num_keys
    /\ UNCHANGED <<native, server, retrieved, frame, audit, db, clock, calls, probe>>

\* server.publish_otk_bundle(identity, ik, otk_bundle) with the identity key of the client
\* of that identity and a bundle some client holds, or that bundle with a signature of
\* random bytes
PublishOtkBundle(identity, otk_bundle, forged) ==
    /\ frame = Idle
    /\ otk_bundle \in bundles
    /\ Len(Pool(server, identity)) + Len(otk_bundle.pre_keys) <= MaxPool
    /\ LET ik == verifying_key(clients[identity].identity_key)
           b == IF forged THEN [otk_bundle EXCEPT !.signature = BadSignature] ELSE otk_bundle
           r == publish_otk_bundle(server, identity, ik, b)
       IN /\ server' = r.server
          /\ last' = [op |-> "publish_otk_bundle", identity |-> identity,
                      result |-> r.result]
    /\ UNCHANGED <<native, clients, rng, bundles, retrieved, frame, audit, db, clock, calls, probe>>

\* x3dh_initiate_send(server, client c, recipient_identity, a's identity key, message)
InitiateSend(c, a, recipient_identity, message, replace_signature) ==
    /\ frame = Idle
    /\ Drawn + 1 <= MaxDraws
    /\ LET f == ServerFetch(server, recipient_identity, replace_signature)
           r == x3dh_initiate_send(server, clients[c], recipient_identity,
                                   clients[a].identity_key, message, rng, replace_signature)
       IN /\ server' = r.server
          /\ clients' = [clients EXCEPT ![c] = r.client]
          /\ rng' = IF f.result.ok THEN rng + 1 ELSE rng
          /\ audit' = [audit EXCEPT
                          !.origin[c] =
                              IF r.client.session_keys # clients[c].session_keys
                              THEN Insert(@, recipient_identity,
                                          [half |-> "send", otk |-> f.result.val.otk])
                              ELSE @]
          /\ last' = [op |-> "x3dh_initiate_send", client |-> c, sender |-> a,
                      recipient_identity |-> recipient_identity, message |-> message,
                      replace_signature |-> replace_signature, result |-> r.result]
    /\ UNCHANGED <<native, bundles, retrieved, frame, db, clock, calls, probe>>

\* server.send_message(recipient_identity, message) with the Message the sender half
\* has just returned for that recipient
SendMessage ==
    /\ frame = Idle
    /\ last.op = "x3dh_initiate_send"
    /\ last.result.ok
    /\ LET recipient_identity == last.recipient_identity
           r == send_message(server, recipient_identity, last.result.val)
       IN /\ server' = r.server
          /\ last' = [op |-> "send_message", recipient_identity |-> recipient_identity,
                      result |-> r.result]
    /\ UNCHANGED <<native, clients, rng, bundles, retrieved, frame, audit, db, clock, calls, probe>>

\* server.retrieve_messages(identity), the list going to the client of that identity
RetrieveMessages(identity) ==
    /\ frame = Idle
    /\ LET r == retrieve_messages(server, identity)
       IN /\ server' = r.server
          /\ retrieved' = [retrieved EXCEPT ![identity] = @ \o r.result]
          /\ last' = [op |-> "retrieve_messages", identity |-> identity,
                      result |-> Ok(r.result)]
    /\ UNCHANGED <<native, clients, rng, bundles, frame, audit, db, clock, calls, probe>>

\* client.fetch_wipe_one_time_secret_key(one_time_key) called on its own
FetchWipe(c, one_time_key) ==
    /\ frame = Idle
    /\ one_time_key \in OneTimeKeys
    /\ LET w == fetch_wipe_one_time_secret_key(clients[c].one_time_pre_keys, one_time_key)
       IN /\ clients' = [clients EXCEPT ![c].one_time_pre_keys = w.one_time_pre_keys]
          /\ audit' = [audit EXCEPT !.wiped[c] =
                          IF w.result.ok THEN Count(@, one_time_key) ELSE @]
          /\ last' = [op |-> "fetch_wipe_one_time_secret_key", client |-> c,
                      one_time_key |-> one_time_key, result |-> w.result]
    /\ UNCHANGED <<native, server, rng, bundles, retrieved, frame, db, clock, calls, probe>>

\* x3dh_initiate_recv(client c, sender, fields of the i-th message c holds), up to the
\* return of x3dh_initiate_recv_sk; the ciphertext may have a byte flipped on the way
RecvSk(c, sender, i, flipped) ==
    /\ frame = Idle
    /\ i \in DOMAIN retrieved[c]
    /\ LET m == retrieved[c][i]
           ciphertext == IF flipped THEN Tampered(m.ciphertext) ELSE m.ciphertext
           identity_key == clients[c].identity_key
           pre_key == clients[c].pre_key
           r == x3dh_initiate_recv_sk(clients[c].one_time_pre_keys, m.identity_key,
                                      m.ephemeral_key, m.otk, identity_key, pre_key)
           call == [op |-> "x3dh_initiate_recv", client |-> c, sender |-> sender,
                    sender_identity_key |-> m.identity_key, otk |-> m.otk,
                    ciphertext |-> ciphertext]
       IN /\ clients' = [clients EXCEPT ![c].one_time_pre_keys = r.one_time_pre_keys]
          /\ audit' = [audit EXCEPT !.wiped[c] =
                          IF IsSome(m.otk) /\ r.result.ok THEN Count(@, Unwrap(m.otk)) ELSE @]
          /\ IF r.result.ok
             THEN /\ frame' = [pc |-> "derived", call |-> call, secret_key |-> r.result.val]
                  /\ last' = last
             ELSE /\ frame' = Idle
                  /\ last' = call @@ [result |-> r.result]
    /\ UNCHANGED <<native, server, rng, bundles, retrieved, db, clock, calls, probe>>

\* client.set_session_key(sender, &secret_key)
RecvRecord ==
    /\ frame.pc = "derived"
    /\ LET c == frame.call.client
       IN /\ clients' = [clients EXCEPT ![c].session_keys =
                            set_session_key(@, frame.call.sender, frame.secret_key)]
          /\ audit' = [audit EXCEPT !.origin[c] =
                          Insert(@, frame.call.sender,
                                 [half |-> "recv", otk |-> frame.call.otk])]
    /\ frame' = [frame EXCEPT !.pc = "recorded"]
    /\ UNCHANGED <<native, server, rng, bundles, retrieved, last, db, clock, calls, probe>>

\* the decryption that ends x3dh_initiate_recv
RecvDecrypt ==
    /\ frame.pc = "recorded"
    /\ LET c == frame.call.client
           r == x3dh_initiate_recv_finish(clients[c].session_keys, frame.call.sender,
                                          frame.call.sender_identity_key,
                                          clients[c].identity_key, frame.secret_key,
                                          frame.call.ciphertext)
       IN /\ clients' = [clients EXCEPT ![c].session_keys = r.session_keys]
          /\ audit' = [audit EXCEPT !.origin[c] =
                          IF r.result.ok THEN @ ELSE Remove(@, frame.call.sender)]
          /\ last' = frame.call @@ [result |-> r.result]
    /\ frame' = Idle
    /\ UNCHANGED <<native, server, rng, bundles, retrieved, db, clock, calls, probe>>

\* the roles of tests::x3dh_send_recv: Bob publishes his keys and receives, Alice sends
Senders == {"Alice"}

Receivers == {"Bob"}

Next ==
    \/ \E identity \in Receivers : SetSpk(identity, FALSE)
    \/ \E c \in Receivers, num_keys \in 1..MaxDraws : AddOneTimeKeys(c, num_keys)
    \/ \E identity \in Receivers, b \in bundles : PublishOtkBundle(identity, b, FALSE)
    \/ \E a \in Senders, r \in Receivers, message \in Plaintext :
           InitiateSend(a, a, r, message, FALSE)
    \/ SendMessage
    \/ \E identity \in Receivers : RetrieveMessages(identity)
    \/ \E c \in Receivers, sender \in Senders, flipped \in BOOLEAN :
           \E i \in DOMAIN retrieved[c] : RecvSk(c, sender, i, flipped)
    \/ RecvRecord
    \/ RecvDecrypt

Init == InitState /\ probe = NoProbe

Spec == Init /\ [][Next]_vars

\* the same run with a directory that may replace the SPK signature of the bundle it
\* returns by random bytes
NextTamper ==
    \/ Next
    \/ \E a \in Senders, r \in Receivers, message \in Plaintext :
           InitiateSend(a, a, r, message, TRUE)

SpecTamper == Init /\ [][NextTamper]_vars

(***************************************************************************)
(* Properties of the protocol run                                          *)
(***************************************************************************)
\* the call x3dh_initiate_recv that has just returned
Received == frame = Idle /\ last.op = "x3dh_initiate_recv"

\* C2: a message produced by the sender half against the recipient's published bundle,
\* posted, retrieved and received with its fields unchanged, while the receiver holds
\* the secret of the one-time key it names, decrypts to the plaintext that was sent
C2_RoundTrip ==
    (Received /\ last.ciphertext.intact /\ last.result.err # "UnknownOneTimeKey")
        => (last.result.ok /\ last.result.val = last.ciphertext.msg)

\* C4: the Message returned by the sender half carries the sender's own identity key
C4_MessageCarriesSenderKey ==
    (frame = Idle /\ last.op = "x3dh_initiate_send" /\ last.result.ok)
        => last.result.val.identity_key = verifying_key(clients[last.sender].identity_key)

\* C6: a send against a bundle whose SPK signature does not verify leaves the
\* recipient's pool and inbox as they were and the sender without a session key for
\* the recipient
C6_BadSpkSendMutatesNothing ==
    [][\A a \in Senders, r \in Receivers, message \in Plaintext :
          (/\ last'.op = "x3dh_initiate_send"
           /\ InitiateSend(a, a, r, message, TRUE)
           /\ ServerFetch(server, r, TRUE).result.ok)
              => /\ Pool(server', r) = Pool(server, r)
                 /\ Inbox(server', r) = Inbox(server, r)
                 /\ r \notin DOMAIN clients'[a].session_keys]_vars

\* C7: a failed decryption makes x3dh_initiate_recv return an error, leaves no session key
\* for the sender and leaves the one-time key the message names removed
C7_DecryptFailure ==
    Received =>
        /\ (~last.ciphertext.intact /\ last.result.err # "UnknownOneTimeKey")
               => last.result.err = "DecryptFailed"
        /\ last.result.err = "DecryptFailed"
               => /\ ~last.result.ok
                  /\ last.sender \notin DOMAIN clients[last.client].session_keys
                  /\ IsSome(last.otk)
                         => Unwrap(last.otk) \notin DOMAIN clients[last.client].one_time_pre_keys

C7_Witness ==
    /\ Received
    /\ last.result.err = "DecryptFailed"
    /\ ~last.ciphertext.intact
    /\ IsSome(last.otk)
    /\ Unwrap(last.otk) \in DOMAIN audit.wiped[last.client]

\* C8: a receive that names a one-time key the receiver holds no secret for fails with
\* UnknownOneTimeKey and leaves the session keys and the one-time keys as they were
C8_UnknownOneTimeKey ==
    [][\A c \in Receivers, sender \in Senders, flipped \in BOOLEAN :
          \A i \in DOMAIN retrieved[c] :
              (/\ last'.op = "x3dh_initiate_recv" \/ frame'.pc = "derived"
               /\ RecvSk(c, sender, i, flipped)
               /\ IsSome(retrieved[c][i].otk)
               /\ Unwrap(retrieved[c][i].otk) \notin DOMAIN clients[c].one_time_pre_keys)
                  => /\ frame' = Idle
                     /\ last'.op = "x3dh_initiate_recv"
                     /\ ~last'.result.ok
                     /\ last'.result.err = "UnknownOneTimeKey"
                     /\ clients' = clients]_vars

C8_Witness ==
    /\ Received
    /\ last.result.err = "UnknownOneTimeKey"
    /\ IsSome(last.otk)

\* the run of tests::x3dh_send_recv as written: the client handed to the sender half is
\* the recipient's own client, the sender key is the other party's, and the receive
\* names the recipient as the sender
NextOwn ==
    \/ \E identity \in Receivers : SetSpk(identity, FALSE)
    \/ \E c \in Receivers, num_keys \in 1..MaxDraws : AddOneTimeKeys(c, num_keys)
    \/ \E identity \in Receivers, b \in bundles : PublishOtkBundle(identity, b, FALSE)
    \/ \E c \in Receivers, a \in Senders, message \in Plaintext :
           InitiateSend(c, a, c, message, FALSE)
    \/ SendMessage
    \/ \E identity \in Receivers : RetrieveMessages(identity)
    \/ \E c \in Receivers, flipped \in BOOLEAN :
           \E i \in DOMAIN retrieved[c] : RecvSk(c, c, i, flipped)
    \/ RecvRecord
    \/ RecvDecrypt

SpecOwn == Init /\ [][NextOwn]_vars

\* a receive that has derived its secret key has removed the one-time key it names
WipedOnceDerived ==
    (frame.pc \in {"derived", "recorded"} /\ IsSome(frame.call.otk))
        => Unwrap(frame.call.otk) \notin DOMAIN clients[frame.call.client].one_time_pre_keys

\* C9 (as stated): in a receive the one-time key is removed before the session key is
\* recorded and before decryption, and no client holds the secret of a one-time key
\* together with a session key derived from that key
C9_NoSecretWithSessionKey ==
    /\ WipedOnceDerived
    /\ \A c \in Identity : \A peer \in DOMAIN audit.origin[c] :
           (peer \in DOMAIN clients[c].session_keys /\ IsSome(audit.origin[c][peer].otk))
               => Unwrap(audit.origin[c][peer].otk) \notin DOMAIN clients[c].one_time_pre_keys

\* C9 (amended): in a receive the one-time key is removed before the session key is
\* recorded and before decryption, and no client holds the secret of a one-time key
\* together with a session key that a receive derived from that key
C9_WipeBeforeSessionKey ==
    /\ WipedOnceDerived
    /\ \A c \in Identity : \A peer \in DOMAIN audit.origin[c] :
           (/\ peer \in DOMAIN clients[c].session_keys
            /\ audit.origin[c][peer].half = "recv"
            /\ IsSome(audit.origin[c][peer].otk))
               => Unwrap(audit.origin[c][peer].otk) \notin DOMAIN clients[c].one_time_pre_keys

C9_Witness ==
    /\ frame.pc = "recorded"
    /\ IsSome(frame.call.otk)
    /\ frame.call.sender \in DOMAIN clients[frame.call.client].session_keys
    /\ audit.origin[frame.call.client][frame.call.sender].half = "recv"
    /\ Unwrap(frame.call.otk) \in DOMAIN audit.wiped[frame.call.client]

(***************************************************************************)
(* The key-agreement functions on their own: inputs drawn from bounded     *)
(* sets, one step applies the sender and the receiver derivation.          *)
(***************************************************************************)
MaxProbeSecret == 3

ProbeSecrets == 1..MaxProbeSecret

InitSk ==
    /\ InitState
    /\ \E alice_ik \in ProbeSecrets, bob_ik \in ProbeSecrets, bob_spk \in ProbeSecrets,
          otk \in {None} \cup {Some(s) : s \in ProbeSecrets}, ek \in ProbeSecrets,
          signer \in ProbeSecrets \cup {0} :
          probe = [done |-> FALSE, alice_ik |-> alice_ik, bob_ik |-> bob_ik,
                   bob_spk |-> bob_spk, otk |-> otk, ek |-> ek, signer |-> signer]

\* the signed prekey of the probe: signed by `signer`, or random bytes when signer = 0
ProbeSpk(p) ==
    [pre_key |-> PublicKeyFrom(p.bob_spk),
     signature |-> IF p.signer = 0 THEN BadSignature
                   ELSE sign_bundle(p.signer, <<PublicKeyFrom(p.bob_spk)>>)]

ProbeOtkPub(p) == IF IsSome(p.otk) THEN Some(PublicKeyFrom(Unwrap(p.otk))) ELSE None

\* tests::x3dh_key_agreement with the probe's inputs
KeyAgreement ==
    /\ ~probe.done
    /\ LET send == x3dh_initiate_send_sk(verifying_key(probe.bob_ik), ProbeSpk(probe),
                                         ProbeOtkPub(probe), probe.alice_ik, probe.ek)
           otks == IF IsSome(probe.otk)
                   THEN Insert(EmptyMap, PublicKeyFrom(Unwrap(probe.otk)), Unwrap(probe.otk))
                   ELSE EmptyMap
           recv == IF send.ok
                   THEN x3dh_initiate_recv_sk(otks, verifying_key(probe.alice_ik),
                                              send.val.ephemeral_key, ProbeOtkPub(probe),
                                              probe.bob_ik, probe.bob_spk).result
                   ELSE Err("not run")
       IN probe' = [probe EXCEPT !.done = TRUE] @@ [send |-> send, recv |-> recv]
    /\ UNCHANGED <<native, server, clients, rng, bundles, retrieved, frame, last, audit, db, clock, calls>>

NextSk == KeyAgreement

SpecSk == InitSk /\ [][NextSk]_vars

\* the SPK signature of the probe verifies under the bundle's identity key
ProbeSpkVerifies ==
    verify_bundle(verifying_key(probe.bob_ik), <<ProbeSpk(probe).pre_key>>,
                  ProbeSpk(probe).signature).ok

\* C3: the sender's and the receiver's derivation return the same secret key, with or
\* without a one-time key, for all identity keys, signed prekeys and ephemeral keys
C3_KeyAgreement ==
    (probe.done /\ probe.send.ok) => (probe.recv.ok /\ probe.recv.val = probe.send.val.secret_key)

C3_Witness ==
    /\ probe.done /\ probe.send.ok /\ probe.recv.ok
    /\ IsSome(probe.otk)
    /\ probe.alice_ik # probe.bob_ik
    /\ Len(probe.recv.val.ikm) = Len(F) + 4

\* C5: a signed prekey whose signature does not verify makes the sender derivation fail
C5_BadSpkRejected ==
    (probe.done /\ ~ProbeSpkVerifies) => ~probe.send.ok

(***************************************************************************)
(* The client key store on its own: keys are generated, consumed by direct *)
(* calls and consumed by the receiver derivation.                          *)
(***************************************************************************)
\* x3dh_initiate_recv_sk(client c, the other client's identity key, an ephemeral key,
\* Some(one_time_key), c's keys), called as tests::x3dh_key_agreement calls it
DeriveRecvSk(c, one_time_key, ephemeral_secret) ==
    /\ frame = Idle
    /\ one_time_key \in OneTimeKeys
    /\ LET peer == CHOOSE p \in Identity : p # c
           r == x3dh_initiate_recv_sk(clients[c].one_time_pre_keys,
                                      verifying_key(clients[peer].identity_key),
                                      PublicKeyFrom(ephemeral_secret), Some(one_time_key),
                                      clients[c].identity_key, clients[c].pre_key)
       IN /\ clients' = [clients EXCEPT ![c].one_time_pre_keys = r.one_time_pre_keys]
          /\ audit' = [audit EXCEPT !.wiped[c] =
                          IF r.result.ok THEN Count(@, one_time_key) ELSE @]
          /\ last' = [op |-> "x3dh_initiate_recv_sk", client |-> c,
                      one_time_key |-> one_time_key, result |-> r.result]
    /\ UNCHANGED <<native, server, rng, bundles, retrieved, frame, db, clock, calls, probe>>

NextClient ==
    \/ \E c \in Identity, num_keys \in 1..MaxDraws : AddOneTimeKeys(c, num_keys)
    \/ \E c \in Identity, k \in OneTimeKeys : FetchWipe(c, k)
    \/ \E c \in Identity, k \in OneTimeKeys, ek \in ProbeSecrets : DeriveRecvSk(c, k, ek)

SpecClient == Init /\ [][NextClient]_vars

\* C1: the secret of a one-time key is returned at most once, by a direct call or to the
\* receiver derivation; a call for a key that was returned before fails with
\* UnknownOneTimeKey and leaves the client as it was; a call that succeeds returns the
\* secret of the key asked for and removes the key
C1_ConsumedAtMostOnce ==
    [][/\ \A c \in Identity : \A k \in DOMAIN audit'.wiped[c] : audit'.wiped[c][k] <= 1
       /\ \A c \in Identity, k \in OneTimeKeys :
              (last'.op = "fetch_wipe_one_time_secret_key" /\ FetchWipe(c, k)) =>
                  /\ k \in DOMAIN audit.wiped[c]
                         => /\ ~last'.result.ok
                            /\ last'.result.err = "UnknownOneTimeKey"
                            /\ clients' = clients
                  /\ last'.result.ok
                         => /\ PublicKeyFrom(last'.result.val) = k
                            /\ k \notin DOMAIN clients'[c].one_time_pre_keys]_vars

C1_Witness ==
    /\ last.op = "fetch_wipe_one_time_secret_key"
    /\ ~last.result.ok
    /\ last.one_time_key \in DOMAIN audit.wiped[last.client]

(***************************************************************************)
(* SqliteStorage (impl Storage): the tables user, pre_key and message.     *)
(* pre_key and message map their primary key (`key`, `message`) to the     *)
(* other columns and the rowid of the row; a table is scanned in rowid     *)
(* order.                                                                  *)
(***************************************************************************)
\* the rowid an INSERT gives a new row: one more than the largest rowid in the table
NextRowid(table) ==
    IF DOMAIN table = {} THEN 1
    ELSE 1 + CHOOSE n \in {table[k].rowid : k \in DOMAIN table} :
                 \A k \in DOMAIN table : table[k].rowid <= n

\* the primary keys of some rows of a table, in rowid order
RECURSIVE ScanOrder(_, _)
ScanOrder(table, keys) ==
    IF keys = {} THEN <<>>
    ELSE LET first == CHOOSE k \in keys : \A o \in keys : table[k].rowid <= table[o].rowid
         IN <<first>> \o ScanOrder(table, keys \ {first})

\* add_user: INSERT INTO user; a failed insert is dropped and the call returns Ok(())
SqliteStorage_add_user(d, identity, identity_key, signed_pre_key, now) ==
    [result |-> Ok(None),
     db |-> IF identity \in DOMAIN d.user THEN d
            ELSE [d EXCEPT !.user = Insert(@, identity,
                                           [key |-> identity_key,
                                            current_pre_key |-> signed_pre_key,
                                            creation_time |-> now])]]

\* add_one_time_keys: one INSERT INTO pre_key per key, in order, stopping at the first
\* that fails (the key is present already, or the user row it refers to is missing)
RECURSIVE SqliteStorage_add_one_time_keys(_, _, _, _)
SqliteStorage_add_one_time_keys(d, identity, pre_keys, now) ==
    IF pre_keys = <<>> THEN [result |-> Ok(None), db |-> d]
    ELSE LET pre_key == Head(pre_keys)
         IN IF pre_key \in DOMAIN d.pre_key \/ identity \notin DOMAIN d.user
            THEN [result |-> Err("failed to insert one time key"), db |-> d]
            ELSE SqliteStorage_add_one_time_keys(
                     [d EXCEPT !.pre_key = Insert(@, pre_key,
                                                  [user_identity |-> identity,
                                                   creation_time |-> now,
                                                   rowid |-> NextRowid(d.pre_key)])],
                     identity, Tail(pre_keys), now)

\* the row SELECT key FROM pre_key WHERE user_identity = ?1 ORDER BY creation_time
\* LIMIT 1 returns: of the user's rows with the least creation_time, the one the scan
\* meets first
FirstRows(d, identity) ==
    LET rows == {k \in DOMAIN d.pre_key : d.pre_key[k].user_identity = identity}
        least == {k \in rows :
                     \A o \in rows : d.pre_key[k].creation_time <= d.pre_key[o].creation_time}
    IN {k \in least : \A o \in least : d.pre_key[k].rowid <= d.pre_key[o].rowid}

\* a faulty pop that returns the selected key and leaves its row in the table
SqliteStorage_pop_one_time_key_keep(d, identity, selected) ==
    IF FirstRows(d, identity) = {} THEN [result |-> Ok(None), db |-> d]
    ELSE [result |-> Ok(Some(selected)), db |-> d]

\* pop_one_time_key: DELETE .. RETURNING key of the row the subquery selects
SqliteStorage_pop_one_time_key(d, identity, selected) ==
    IF FirstRows(d, identity) = {} THEN [result |-> Ok(None), db |-> d]
    ELSE [result |-> Ok(Some(selected)), db |-> [d EXCEPT !.pre_key = Remove(@, selected)]]

\* update_pre_key: UPDATE user SET current_pre_key = ?2 WHERE identity = ?1 RETURNING
\* identity; no row returned is NotFound
\* a faulty update_pre_key that reports success when no row matched
SqliteStorage_update_pre_key_quiet(d, identity, signed_pre_key) == IF identity \notin DOMAIN d.user THEN [result |-> Ok(None), db |-> d] ELSE [result |-> Ok(None), db |-> [d EXCEPT !.user[identity].current_pre_key = signed_pre_key]]

SqliteStorage_update_pre_key(d, identity, signed_pre_key) ==
    IF identity \notin DOMAIN d.user
    THEN [result |-> Err("user not found"), db |-> d]
    ELSE [result |-> Ok(None),
          db |-> [d EXCEPT !.user[identity].current_pre_key = signed_pre_key]]

\* get_current_keys: SELECT key, current_pre_key FROM user WHERE identity = ?1
SqliteStorage_get_current_keys(d, identity) ==
    IF identity \notin DOMAIN d.user THEN Err("user not found")
    ELSE Ok(<<d.user[identity].key, d.user[identity].current_pre_key>>)

\* Message::encode_to_vec: the fields of the message, each behind its tag
encode_to_vec(message) ==
    <<<<"sender_identity", message.sender_identity>>, <<"ciphertext", message.ciphertext>>>>

\* Message::decode: the message of a well-formed encoding, an error for other bytes
Message_decode(bytes) ==
    IF /\ Len(bytes) = 2
       /\ bytes[1][1] = "sender_identity"
       /\ bytes[2][1] = "ciphertext"
    THEN Ok([sender_identity |-> bytes[1][2], ciphertext |-> bytes[2][2]])
    ELSE Err("Failed to deserialize Message proto")

\* a faulty add_message that stores the encoding cut short
SqliteStorage_add_message_cut(d, recipient, message, now) ==
    IF SubSeq(encode_to_vec(message), 2, 2) \in DOMAIN d.message \/ recipient \notin DOMAIN d.user
    THEN [result |-> Err("user not found"), db |-> d]
    ELSE [result |-> Ok(None),
          db |-> [d EXCEPT !.message = Insert(@, SubSeq(encode_to_vec(message), 2, 2),
                                              [user_identity |-> recipient,
                                               creation_time |-> now,
                                               rowid |-> NextRowid(d.message)])]]

\* add_message: INSERT INTO message .. RETURNING creation_time of the encoded message;
\* every failure of the insert (the same bytes are present already, or the user row it
\* refers to is missing) is mapped to NotFound
SqliteStorage_add_message(d, recipient, message, now) ==
    IF encode_to_vec(message) \in DOMAIN d.message \/ recipient \notin DOMAIN d.user
    THEN [result |-> Err("user not found"), db |-> d]
    ELSE [result |-> Ok(None),
          db |-> [d EXCEPT !.message = Insert(@, encode_to_vec(message),
                                              [user_identity |-> recipient,
                                               creation_time |-> now,
                                               rowid |-> NextRowid(d.message)])]]

\* the rows of message that belong to an identity
MessageRows(d, identity) ==
    {m \in DOMAIN d.message : d.message[m].user_identity = identity}

\* the loop of get_messages over the returned rows: each is decoded and pushed, and the
\* first that fails to decode ends the call with an error
DecodeRows(rows) ==
    IF \E i \in DOMAIN rows : ~Message_decode(rows[i]).ok
    THEN Err("Failed to deserialize Message proto")
    ELSE Ok([i \in DOMAIN rows |-> Message_decode(rows[i]).val])

\* a faulty get_messages that selects the rows and does not delete them
SqliteStorage_get_messages_keep(d, identity) == [result |-> DecodeRows(ScanOrder(d.message, MessageRows(d, identity))), db |-> d]

\* get_messages: DELETE from message WHERE user_identity = ?1 RETURNING message; the
\* first step of the statement deletes every matching row, the rows are then read back
\* and decoded, and the statement commits when it is dropped, whether or not the loop
\* ran to its end
SqliteStorage_get_messages(d, identity) ==
    [result |-> DecodeRows(ScanOrder(d.message, MessageRows(d, identity))),
     db |-> [d EXCEPT !.message =
                [m \in (DOMAIN d.message) \ MessageRows(d, identity) |-> d.message[m]]]]

(***************************************************************************)
(* The two directories on their own: keys are published to and requested   *)
(* from the in-memory server and the database.                             *)
(***************************************************************************)
MaxClock == 1

\* a key is put into a directory at most this many times
MaxAdds == 2

Counted(map, key) == IF key \in DOMAIN map THEN map[key] ELSE 0

InSeq(seq, key) == \E i \in DOMAIN seq : seq[i] = key

\* server.fetch_prekey_bundle(identity) called on its own
FetchPrekeyBundle(identity) ==
    /\ frame = Idle
    /\ LET r == fetch_prekey_bundle(server, identity)
       IN /\ server' = r.server
          /\ audit' = [audit EXCEPT !.issued[identity] =
                          IF r.result.ok /\ IsSome(r.result.val.otk)
                          THEN Count(@, Unwrap(r.result.val.otk)) ELSE @]
          /\ last' = [op |-> "fetch_prekey_bundle", identity |-> identity,
                      result |-> r.result]
    /\ UNCHANGED <<native, clients, rng, bundles, retrieved, frame, db, clock, calls, probe>>

\* publish_otk_bundle, with the keys that entered the pool counted
PublishCounted(identity, otk_bundle) ==
    /\ frame = Idle
    /\ otk_bundle \in bundles
    /\ Len(Pool(server, identity)) + Len(otk_bundle.pre_keys) <= MaxPool
    /\ \A i \in DOMAIN otk_bundle.pre_keys :
           Counted(audit.added[identity], otk_bundle.pre_keys[i]) < MaxAdds
    /\ LET ik == verifying_key(clients[identity].identity_key)
           r == publish_otk_bundle(server, identity, ik, otk_bundle)
           new == SubSeq(Pool(r.server, identity), Len(Pool(server, identity)) + 1,
                         Len(Pool(r.server, identity)))
       IN /\ server' = r.server
          /\ audit' = [audit EXCEPT !.added[identity] = CountAll(@, new)]
          /\ last' = [op |-> "publish_otk_bundle", identity |-> identity,
                      result |-> r.result]
    /\ UNCHANGED <<native, clients, rng, bundles, retrieved, frame, db, clock, calls, probe>>

\* storage.add_user(identity, ik, spk) with the keys of the client of that identity
DbAddUser(identity) ==
    /\ LET r == SqliteStorage_add_user(db, identity,
                                       verifying_key(clients[identity].identity_key),
                                       get_spk(clients[identity]), clock)
       IN /\ db' = r.db
          /\ last' = [op |-> "add_user", identity |-> identity, result |-> r.result]
    /\ UNCHANGED <<native, server, clients, rng, bundles, retrieved, frame, audit, clock, calls, probe>>

\* an identity has at most this many rows in pre_key, and the clients draw at most this
\* many one-time keys, where the directory is checked on its own
MaxRows == 2

\* storage.add_one_time_keys(identity, pre_keys) with the keys of a bundle a client holds
DbAddOneTimeKeys(identity, otk_bundle) ==
    /\ otk_bundle \in bundles
    /\ Cardinality({k \in DOMAIN db.pre_key : db.pre_key[k].user_identity = identity})
           + Len(otk_bundle.pre_keys) <= MaxRows
    /\ \A i \in DOMAIN otk_bundle.pre_keys :
           Counted(audit.db_added[identity], otk_bundle.pre_keys[i]) < MaxAdds
    /\ LET r == SqliteStorage_add_one_time_keys(db, identity, otk_bundle.pre_keys, clock)
           new == SelectSeq(otk_bundle.pre_keys,
                            LAMBDA k : k \in DOMAIN r.db.pre_key /\ k \notin DOMAIN db.pre_key)
       IN /\ db' = r.db
          /\ audit' = [audit EXCEPT !.db_added[identity] = CountAll(@, new),
                                    !.db_order[identity] = @ \o new]
          /\ last' = [op |-> "add_one_time_keys", identity |-> identity,
                      result |-> r.result]
    /\ UNCHANGED <<native, server, clients, rng, bundles, retrieved, frame, clock, calls, probe>>

\* storage.pop_one_time_key(identity)
DbPopOneTimeKey(identity) ==
    /\ \E selected \in FirstRows(db, identity) \cup {0} :
           /\ selected = 0 <=> FirstRows(db, identity) = {}
           /\ LET r == SqliteStorage_pop_one_time_key(db, identity, selected)
              IN /\ db' = r.db
                 /\ audit' = [audit EXCEPT
                                 !.db_issued[identity] =
                                     IF IsSome(r.result.val)
                                     THEN Count(@, Unwrap(r.result.val)) ELSE @,
                                 !.db_order[identity] =
                                     SelectSeq(@, LAMBDA k : Some(k) # r.result.val)]
                 /\ last' = [op |-> "pop_one_time_key", identity |-> identity,
                             result |-> r.result]
    /\ UNCHANGED <<native, server, clients, rng, bundles, retrieved, frame, clock, calls, probe>>

\* a second passes on the clock SystemTime::now() reads; the clock does not step back
Tick ==
    /\ clock < MaxClock
    /\ clock' = clock + 1
    /\ UNCHANGED <<native, server, clients, rng, bundles, retrieved, frame, last, audit, db, probe, calls>>

\* the directory a run of the service is built on
Backend == {"InMemoryServer", "SqliteStorage"}

InitDir == InitState /\ probe \in {[done |-> FALSE, backend |-> b] : b \in Backend}

NextDir ==
    \/ \E c \in Receivers, num_keys \in 1..MaxRows :
           Drawn + num_keys <= MaxRows /\ AddOneTimeKeys(c, num_keys)
    \/ /\ probe.backend = "InMemoryServer"
       /\ \/ \E identity \in Receivers : SetSpk(identity, FALSE)
          \/ \E identity \in Receivers, b \in bundles : PublishCounted(identity, b)
          \/ \E identity \in Receivers : FetchPrekeyBundle(identity)
    \/ /\ probe.backend = "SqliteStorage"
       /\ \/ \E identity \in Receivers : DbAddUser(identity)
          \/ \E identity \in Receivers, b \in bundles : DbAddOneTimeKeys(identity, b)
          \/ \E identity \in Receivers : DbPopOneTimeKey(identity)
          \/ Tick

SpecDir == InitDir /\ [][NextDir]_vars

\* C10: a one-time key added once to an identity's pool is handed out by at most one
\* request for that identity and is not in the pool once it has been handed out, in the
\* in-memory directory and in the database
C10_HandedOutAtMostOnce ==
    \A u \in Identity :
        /\ \A k \in DOMAIN audit.added[u] :
               audit.added[u][k] = 1
                   => /\ Counted(audit.issued[u], k) <= 1
                      /\ Counted(audit.issued[u], k) = 1 => ~InSeq(Pool(server, u), k)
        /\ \A k \in DOMAIN audit.db_added[u] :
               audit.db_added[u][k] = 1
                   => /\ Counted(audit.db_issued[u], k) <= 1
                      /\ Counted(audit.db_issued[u], k) = 1 => k \notin DOMAIN db.pre_key

C10_Witness ==
    \E u \in Identity :
        \/ /\ last.op = "fetch_prekey_bundle" /\ last.result.ok /\ ~IsSome(last.result.val.otk)
           /\ \E k \in DOMAIN audit.added[u] :
                  audit.added[u][k] = 1 /\ Counted(audit.issued[u], k) = 1
           /\ \E k \in DOMAIN audit.added[u] : audit.added[u][k] = 2
        \/ /\ last.op = "pop_one_time_key" /\ ~IsSome(last.result.val)
           /\ \E k \in DOMAIN audit.db_added[u] :
                  audit.db_added[u][k] = 1 /\ Counted(audit.db_issued[u], k) = 1
           /\ \E k \in DOMAIN audit.db_added[u] : audit.db_added[u][k] = 2

(***************************************************************************)
(* Concurrent calls on the shared SqliteStorage(Arc<Mutex<Connection>>):   *)
(* a call takes the mutex in self.connection(), runs its statement while   *)
(* it holds the MutexGuard and gives the mutex back when the guard drops.  *)
(***************************************************************************)
\* no thread has called into the storage yet
Quiet == \A t \in Threads : calls.thread[t].pc = "idle"

\* the rows of pre_key that belong to an identity
PreKeyRows(d, identity) == {k \in DOMAIN d.pre_key : d.pre_key[k].user_identity = identity}

\* a worker thread enters storage.pop_one_time_key(identity)
CallPop(t, identity) ==
    /\ calls.thread[t].pc = "idle"
    /\ calls' = [calls EXCEPT
                    !.thread[t] = [pc |-> "called", op |-> "pop_one_time_key",
                                   identity |-> identity],
                    \* history: the size of the pool when the first of the calls began
                    !.pool_before = IF identity \in DOMAIN @ THEN @
                                    ELSE Insert(@, identity,
                                                Cardinality(PreKeyRows(db, identity)))]
    /\ UNCHANGED <<native, server, clients, rng, bundles, retrieved, frame, last, audit, db, clock, probe>>

\* self.connection(): Mutex::lock returns once the mutex is free
Lock(t) ==
    /\ calls.thread[t].pc = "called"
    /\ calls.mutex = None
    /\ calls' = [calls EXCEPT !.mutex = Some(t), !.thread[t].pc = "locked"]
    /\ UNCHANGED <<native, server, clients, rng, bundles, retrieved, frame, last, audit, db, clock, probe>>

\* the DELETE .. RETURNING of pop_one_time_key under the guard; the guard drops and the
\* call returns
RunPop(t) ==
    /\ calls.thread[t].pc = "locked"
    /\ calls.mutex = Some(t)
    /\ calls.thread[t].op = "pop_one_time_key"
    /\ LET identity == calls.thread[t].identity
       IN \E selected \in FirstRows(db, identity) \cup {0} :
              /\ selected = 0 <=> FirstRows(db, identity) = {}
              /\ LET r == SqliteStorage_pop_one_time_key(db, identity, selected)
                 IN /\ db' = r.db
                    /\ calls' = [calls EXCEPT !.mutex = None,
                                              !.thread[t] = [@ EXCEPT !.pc = "returned"]
                                                            @@ [result |-> r.result]]
    /\ UNCHANGED <<native, server, clients, rng, bundles, retrieved, frame, last, audit, clock, probe>>

\* the threads whose call of an operation for an identity has returned
Returned(op, identity) ==
    {t \in Threads : /\ calls.thread[t].pc = "returned"
                     /\ calls.thread[t].op = op
                     /\ calls.thread[t].identity = identity}

\* keys are stored for one registered identity, then the worker threads call
NextPop ==
    \/ /\ Quiet
       /\ \/ \E c \in Receivers, num_keys \in 1..MaxDraws : AddOneTimeKeys(c, num_keys)
          \/ \E identity \in Receivers : DbAddUser(identity)
          \/ \E identity \in Receivers, b \in bundles : DbAddOneTimeKeys(identity, b)
    \/ \E t \in Threads, identity \in Receivers : CallPop(t, identity)
    \/ \E t \in Threads : Lock(t)
    \/ \E t \in Threads : RunPop(t)

SpecPop == Init /\ [][NextPop]_vars

\* C11: concurrent pop_one_time_key calls for one identity that return a key return
\* pairwise distinct keys, and no more calls return a key than the pool held before
\* the calls
C11_ConcurrentPopsDistinct ==
    \A u \in Identity :
        LET got == {t \in Returned("pop_one_time_key", u) : IsSome(calls.thread[t].result.val)}
        IN /\ \A t1 \in got, t2 \in got :
                  t1 # t2 => calls.thread[t1].result.val # calls.thread[t2].result.val
           /\ got # {} => Cardinality(got) <= calls.pool_before[u]

C11_Witness ==
    \E u \in Identity : \E t1 \in Returned("pop_one_time_key", u),
                           t2 \in Returned("pop_one_time_key", u) :
        /\ t1 # t2
        /\ IsSome(calls.thread[t1].result.val)
        /\ IsSome(calls.thread[t2].result.val)
        /\ \A t \in Threads : calls.thread[t].pc = "returned"

\* C12: the directory hands one-time keys out in the order in which they were added:
\* a request for an identity whose pool is not empty returns the key that has been in
\* the pool longest, so that keys k1, ..., kN added in that order come back in that
\* order from N consecutive requests
C12_DirectoryFifo ==
    [][\A u \in Identity :
          /\ (/\ last'.op = "fetch_prekey_bundle"
              /\ FetchPrekeyBundle(u)
              /\ last'.result.ok
              /\ Pool(server, u) # <<>>)
                 => last'.result.val.otk = Some(Head(Pool(server, u)))
          /\ (/\ last'.op = "pop_one_time_key"
              /\ DbPopOneTimeKey(u)
              /\ audit.db_order[u] # <<>>)
                 => last'.result.val = Some(Head(audit.db_order[u]))]_vars

(***************************************************************************)
(* The message queues on their own: messages are posted to and retrieved   *)
(* from the in-memory server and the database, one call at a time.         *)
(***************************************************************************)
MaxBody == 2

MaxPosts == 3

\* the messages callers post: a sender and a ciphertext
QueueMessages == [sender_identity : Senders, ciphertext : 1..MaxBody]

\* server.send_message(recipient_identity, message)
PostMessage(recipient_identity, message) ==
    /\ audit.posts < MaxPosts
    /\ LET r == send_message(server, recipient_identity, message)
       IN /\ server' = r.server
          /\ audit' = [audit EXCEPT
                          !.accepted[recipient_identity] =
                              IF r.result.ok THEN Append(@, message) ELSE @,
                          !.posts = IF r.result.ok THEN @ + 1 ELSE @]
          /\ last' = [op |-> "send_message", recipient_identity |-> recipient_identity,
                      message |-> message, result |-> r.result]
    /\ UNCHANGED <<native, clients, rng, bundles, retrieved, frame, db, clock, calls, probe>>

\* server.retrieve_messages(identity)
DrainMessages(identity) ==
    /\ LET r == retrieve_messages(server, identity)
       IN /\ server' = r.server
          /\ audit' = [audit EXCEPT !.accepted[identity] = <<>>]
          /\ last' = [op |-> "retrieve_messages", identity |-> identity,
                      result |-> Ok(r.result)]
    /\ UNCHANGED <<native, clients, rng, bundles, retrieved, frame, db, clock, calls, probe>>

\* storage.add_message(recipient, message)
DbAddMessage(recipient, message) ==
    /\ audit.posts < MaxPosts
    /\ LET r == SqliteStorage_add_message(db, recipient, message, clock)
       IN /\ db' = r.db
          /\ audit' = [audit EXCEPT
                          !.accepted[recipient] = IF r.result.ok THEN Append(@, message) ELSE @,
                          !.posts = IF r.result.ok THEN @ + 1 ELSE @]
          /\ last' = [op |-> "add_message", recipient_identity |-> recipient,
                      message |-> message, result |-> r.result]
    /\ UNCHANGED <<native, server, clients, rng, bundles, retrieved, frame, clock, calls, probe>>

\* storage.get_messages(identity)
DbGetMessages(identity) ==
    /\ LET r == SqliteStorage_get_messages(db, identity)
       IN /\ db' = r.db
          /\ audit' = [audit EXCEPT !.accepted[identity] = <<>>]
          /\ last' = [op |-> "get_messages", identity |-> identity, result |-> r.result]
    /\ UNCHANGED <<native, server, clients, rng, bundles, retrieved, frame, clock, calls, probe>>

\* Bob registers; messages are posted for Bob and for Alice, who never registers
NextQueue ==
    \/ /\ probe.backend = "InMemoryServer"
       /\ \/ \E identity \in Receivers : SetSpk(identity, FALSE)
          \/ \E recipient \in Identity, message \in QueueMessages :
                 PostMessage(recipient, message)
          \/ \E identity \in Identity : DrainMessages(identity)
    \/ /\ probe.backend = "SqliteStorage"
       /\ \/ \E identity \in Identity : DbAddUser(identity)
          \/ \E recipient \in Identity, message \in QueueMessages :
                 DbAddMessage(recipient, message)
          \/ \E identity \in Identity : DbGetMessages(identity)
          \/ Tick

SpecQueue == InitDir /\ [][NextQueue]_vars

\* the number of times a message occurs in a list
Occurrences(seq, message) == Cardinality({i \in DOMAIN seq : seq[i] = message})

\* two lists hold the same messages the same number of times
SameMessages(s1, s2) ==
    /\ Len(s1) = Len(s2)
    /\ \A message \in QueueMessages : Occurrences(s1, message) = Occurrences(s2, message)

\* C13: a retrieval for an identity returns every message accepted for it since the
\* previous retrieval, each exactly once, and leaves nothing for a retrieval that
\* follows it at once
C13_QueueDrain ==
    [][\A u \in Identity :
          /\ (last'.op = "retrieve_messages" /\ DrainMessages(u))
                 => /\ SameMessages(last'.result.val, audit.accepted[u])
                    /\ retrieve_messages(server', u).result = <<>>
          /\ (last'.op = "get_messages" /\ DbGetMessages(u))
                 => /\ last'.result.ok
                    /\ SameMessages(last'.result.val, audit.accepted[u])
                    /\ SqliteStorage_get_messages(db', u).result.val = <<>>]_vars

C13_Witness ==
    /\ last.op \in {"retrieve_messages", "get_messages"}
    /\ Len(last.result.val) = 2
    /\ audit.posts = 3

(***************************************************************************)
(* Worker threads call get_messages on the storage they share.             *)
(***************************************************************************)
\* a worker thread enters storage.get_messages(identity)
CallGet(t, identity) ==
    /\ calls.thread[t].pc = "idle"
    /\ calls' = [calls EXCEPT
                    !.thread[t] = [pc |-> "called", op |-> "get_messages",
                                   identity |-> identity],
                    \* history: the messages queued when the first of the calls began
                    !.queue_before = IF identity \in DOMAIN @ THEN @
                                     ELSE Insert(@, identity,
                                                 {Message_decode(b).val :
                                                      b \in MessageRows(db, identity)})]
    /\ UNCHANGED <<native, server, clients, rng, bundles, retrieved, frame, last, audit, db, clock, probe>>

\* the DELETE .. RETURNING of get_messages under the guard; the guard drops and the
\* call returns
RunGet(t) ==
    /\ calls.thread[t].pc = "locked"
    /\ calls.mutex = Some(t)
    /\ calls.thread[t].op = "get_messages"
    /\ LET r == SqliteStorage_get_messages(db, calls.thread[t].identity)
       IN /\ db' = r.db
          /\ calls' = [calls EXCEPT !.mutex = None,
                                    !.thread[t] = [@ EXCEPT !.pc = "returned"]
                                                  @@ [result |-> r.result]]
    /\ UNCHANGED <<native, server, clients, rng, bundles, retrieved, frame, last, audit, clock, probe>>

\* messages are queued for a registered identity, then the worker threads call
NextGet ==
    \/ /\ Quiet
       /\ \/ \E identity \in Receivers : DbAddUser(identity)
          \/ \E recipient \in Receivers, message \in QueueMessages :
                 DbAddMessage(recipient, message)
          \/ Tick
    \/ \E t \in Threads, identity \in Receivers : CallGet(t, identity)
    \/ \E t \in Threads : Lock(t)
    \/ \E t \in Threads : RunGet(t)

SpecGet == Init /\ [][NextGet]_vars

\* the messages in a list
Range(seq) == {seq[i] : i \in DOMAIN seq}

\* C14: the lists that concurrent get_messages calls for one identity return are
\* pairwise disjoint, and together they hold exactly the messages that were queued
C14_ConcurrentGetsPartition ==
    \A u \in Identity :
        LET got == Returned("get_messages", u)
        IN /\ \A t1 \in got, t2 \in got :
                  t1 # t2 => Range(calls.thread[t1].result.val)
                                 \cap Range(calls.thread[t2].result.val) = {}
           /\ got # {} => UNION {Range(calls.thread[t].result.val) : t \in got}
                              = calls.queue_before[u]

C14_Witness ==
    \E u \in Identity :
        /\ Returned("get_messages", u) = Threads
        /\ Cardinality(calls.queue_before[u]) = 2
        /\ \E t \in Threads : Len(calls.thread[t].result.val) = 2

Registered == (DOMAIN server.identity_key) \cup (DOMAIN db.user)

\* C16: sending to an identity that was never registered returns an error and puts
\* the message into no inbox
C16_UnknownRecipientRejected ==
    (/\ last.op \in {"send_message", "add_message"}
     /\ last.recipient_identity \notin Registered)
        => /\ ~last.result.ok
           /\ Inbox(server, last.recipient_identity) = <<>>
           /\ MessageRows(db, last.recipient_identity) = {}

\* C17: every add_message for a registered recipient succeeds and queues one more
\* message, a message that is queued already included
C17_EveryAddEnqueues ==
    [][\A u \in Identity, message \in QueueMessages :
          (/\ last'.op = "add_message"
           /\ DbAddMessage(u, message)
           /\ u \in DOMAIN db.user)
              => /\ last'.result.ok
                 /\ Cardinality(MessageRows(db', u)) = Cardinality(MessageRows(db, u)) + 1]_vars

(***************************************************************************)
(* Registration: callers hand the directory identity keys, signed prekeys  *)
(* and one-time key bundles of their choice, their own or another          *)
(* client's.                                                               *)
(***************************************************************************)
\* server.set_spk(identity, ik, spk) with the identity key and signed prekey of a client
SetSpkWith(identity, owner) ==
    /\ LET r == set_spk(server, identity, verifying_key(clients[owner].identity_key),
                        get_spk(clients[owner]))
       IN /\ server' = r.server
          /\ last' = [op |-> "set_spk", identity |-> identity, result |-> r.result]
    /\ UNCHANGED <<native, clients, rng, bundles, retrieved, frame, audit, db, clock, calls, probe>>

\* server.publish_otk_bundle(identity, ik, otk_bundle) with the identity key of a client
\* and a bundle some client holds
PublishWith(identity, owner, otk_bundle) ==
    /\ otk_bundle \in bundles
    /\ Len(Pool(server, identity)) + Len(otk_bundle.pre_keys) <= MaxRows
    /\ LET ik == verifying_key(clients[owner].identity_key)
           r == publish_otk_bundle(server, identity, ik, otk_bundle)
           new == SubSeq(Pool(r.server, identity), Len(Pool(server, identity)) + 1,
                         Len(Pool(r.server, identity)))
       IN /\ server' = r.server
          /\ audit' = [audit EXCEPT !.added[identity] = CountAll(@, new)]
          /\ last' = [op |-> "publish_otk_bundle", identity |-> identity, ik |-> ik,
                      otk_bundle |-> otk_bundle, result |-> r.result]
    /\ UNCHANGED <<native, clients, rng, bundles, retrieved, frame, db, clock, calls, probe>>

\* storage.add_user(identity, ik, spk) with the identity key and signed prekey of a client
DbAddUserWith(identity, owner) ==
    /\ LET r == SqliteStorage_add_user(db, identity,
                                       verifying_key(clients[owner].identity_key),
                                       get_spk(clients[owner]), clock)
       IN /\ db' = r.db
          /\ last' = [op |-> "add_user", identity |-> identity, result |-> r.result]
    /\ UNCHANGED <<native, server, clients, rng, bundles, retrieved, frame, audit, clock, calls, probe>>

\* the signed prekeys callers pass to update_pre_key: a client's own, or, as in
\* tests::update_pre_key_success, a client's with pre_key replaced by a one-time key
\* and the signature left as it was
ReplacementSpks ==
    {get_spk(clients[c]) : c \in Identity}
        \cup {[get_spk(clients[c]) EXCEPT !.pre_key = b.pre_keys[1]] :
                  c \in Identity, b \in bundles}

\* storage.update_pre_key(identity, spk)
DbUpdatePreKey(identity, spk) ==
    /\ LET r == SqliteStorage_update_pre_key(db, identity, spk)
       IN /\ db' = r.db
          /\ last' = [op |-> "update_pre_key", identity |-> identity, spk |-> spk,
                      result |-> r.result]
    /\ UNCHANGED <<native, server, clients, rng, bundles, retrieved, frame, audit, clock, calls, probe>>

\* the prekey request of the service on the storage: read (ik, current_spk) with
\* get_current_keys, failing if the identity is absent, then pop one one-time key
request_pre_keys(d, identity) ==
    LET keys == SqliteStorage_get_current_keys(d, identity)
        selected == IF FirstRows(d, identity) = {} THEN 0
                    ELSE CHOOSE k \in FirstRows(d, identity) : TRUE
        popped == SqliteStorage_pop_one_time_key(d, identity, selected)
    IN IF ~keys.ok THEN [result |-> Err(keys.err), db |-> d]
       ELSE [result |-> Ok([identity_key |-> keys.val[1], otk |-> popped.result.val,
                            spk |-> keys.val[2]]),
             db |-> popped.db]

\* a prekey request served from the storage
DbRequestPreKeys(identity) ==
    /\ LET r == request_pre_keys(db, identity)
       IN /\ db' = r.db
          /\ audit' = [audit EXCEPT
                          !.db_issued[identity] =
                              IF r.result.ok /\ IsSome(r.result.val.otk)
                              THEN Count(@, Unwrap(r.result.val.otk)) ELSE @,
                          !.db_order[identity] =
                              IF r.result.ok
                              THEN SelectSeq(@, LAMBDA k : Some(k) # r.result.val.otk)
                              ELSE @]
          /\ last' = [op |-> "request_pre_keys", identity |-> identity, result |-> r.result]
    /\ UNCHANGED <<native, server, clients, rng, bundles, retrieved, frame, clock, calls, probe>>

\* every directory operation on the entry of one identity, called with the keys and
\* bundles of either client; one message is posted and one bundle stored
NextReg ==
    \/ \E c \in Identity, num_keys \in 1..MaxRows :
           Drawn + num_keys <= MaxRows /\ AddOneTimeKeys(c, num_keys)
    \/ /\ probe.backend = "InMemoryServer"
       /\ \/ \E identity \in Receivers, owner \in Identity : SetSpkWith(identity, owner)
          \/ \E identity \in Receivers : SetSpk(identity, TRUE)
          \/ \E identity \in Receivers, owner \in Identity, b \in bundles :
                 audit.added[identity] = EmptyMap /\ PublishWith(identity, owner, b)
          \/ \E identity \in Receivers : FetchPrekeyBundle(identity)
          \/ \E recipient \in Receivers, message \in QueueMessages :
                 audit.posts = 0 /\ PostMessage(recipient, message)
          \/ \E identity \in Receivers : DrainMessages(identity)
    \/ /\ probe.backend = "SqliteStorage"
       /\ \/ \E identity \in Receivers, owner \in Identity : DbAddUserWith(identity, owner)
          \/ \E identity \in Receivers, spk \in ReplacementSpks : DbUpdatePreKey(identity, spk)
          \/ \E identity \in Receivers, b \in bundles :
                 audit.db_added[identity] = EmptyMap /\ DbAddOneTimeKeys(identity, b)
          \/ \E identity \in Receivers : DbPopOneTimeKey(identity)
          \/ \E identity \in Receivers : DbRequestPreKeys(identity)
          \/ \E recipient \in Receivers, message \in QueueMessages :
                 audit.posts = 0 /\ DbAddMessage(recipient, message)
          \/ \E identity \in Receivers : DbGetMessages(identity)

SpecReg == InitDir /\ [][NextReg]_vars

\* C18: once an identity key is stored for an identity, no directory operation
\* changes it
C18_IdentityKeyImmutable ==
    [][\A u \in Identity :
          /\ u \in DOMAIN server.identity_key
                 => /\ u \in DOMAIN server'.identity_key
                    /\ server'.identity_key[u] = server.identity_key[u]
          /\ u \in DOMAIN db.user
                 => /\ u \in DOMAIN db'.user
                    /\ db'.user[u].key = db.user[u].key]_vars

\* C19: the signed prekey stored for an identity verifies under the identity key
\* stored for that identity
C19_StoredSpkVerifies ==
    \A u \in Identity :
        /\ u \in DOMAIN server.current_pre_key
               => /\ u \in DOMAIN server.identity_key
                  /\ verify_bundle(server.identity_key[u],
                                   <<server.current_pre_key[u].pre_key>>,
                                   server.current_pre_key[u].signature).ok
        /\ u \in DOMAIN db.user
               => verify_bundle(db.user[u].key, <<db.user[u].current_pre_key.pre_key>>,
                                db.user[u].current_pre_key.signature).ok

\* C20: one-time keys enter an identity's pool only with a signature that verifies
\* under the identity key stored for that identity; for an identity with no stored key
\* nothing enters
C20_PoolKeysVerified ==
    [][\A u \in Identity :
          /\ (/\ last'.op = "publish_otk_bundle"
              /\ Len(Pool(server', u)) > Len(Pool(server, u)))
                 => /\ u \in DOMAIN server.identity_key
                    /\ verify_bundle(server.identity_key[u], last'.otk_bundle.pre_keys,
                                     last'.otk_bundle.signature).ok
          /\ PreKeyRows(db', u) # PreKeyRows(db, u) => u \in DOMAIN db.user]_vars

\* C21: update_pre_key for an identity with no user row fails with "user not found"
\* and changes no row; for an identity with a row it replaces current_pre_key only
C21_UpdatePreKeyFrame ==
    [][\A u \in Identity, spk \in ReplacementSpks :
          (last'.op = "update_pre_key" /\ DbUpdatePreKey(u, spk))
              => IF u \notin DOMAIN db.user
                 THEN /\ ~last'.result.ok
                      /\ last'.result.err = "user not found"
                      /\ db' = db
                 ELSE /\ last'.result.ok
                      /\ db'.user[u].current_pre_key = spk
                      /\ db'.user[u].key = db.user[u].key
                      /\ db'.user[u].creation_time = db.user[u].creation_time
                      /\ DOMAIN db'.user = DOMAIN db.user
                      /\ \A o \in (DOMAIN db.user) \ {u} : db'.user[o] = db.user[o]
                      /\ db'.pre_key = db.pre_key
                      /\ db'.message = db.message]_vars

C21_Witness ==
    /\ last.op = "update_pre_key"
    /\ last.result.ok
    /\ PreKeyRows(db, last.identity) # {}
    /\ MessageRows(db, last.identity) # {}
    /\ db.user[last.identity].current_pre_key.pre_key \in DOMAIN db.pre_key

\* C22: publishing one-time keys for an identity that is absent from the directory
\* fails with "user not found" (NotFound) and appends no key to any pool
C22_PublishForAbsentRejected ==
    [][\A u \in Identity, b \in bundles :
          /\ \A owner \in Identity :
                 (/\ last'.op = "publish_otk_bundle"
                  /\ PublishWith(u, owner, b)
                  /\ u \notin DOMAIN server.identity_key)
                     => /\ ~last'.result.ok
                        /\ server'.one_time_pre_keys = server.one_time_pre_keys
          /\ (/\ last'.op = "add_one_time_keys"
              /\ DbAddOneTimeKeys(u, b)
              /\ u \notin DOMAIN db.user)
                 => /\ ~last'.result.ok
                    /\ last'.result.err = "user not found"
                    /\ db'.pre_key = db.pre_key]_vars

\* C23: a prekey request for a registered identity whose pool is empty succeeds with
\* otk = None and the stored identity key and signed prekey; a request for an unknown
\* identity fails and removes no one-time key from any pool
C23_PrekeyRequestEdges ==
    [][\A u \in Identity :
          /\ (last'.op = "fetch_prekey_bundle" /\ FetchPrekeyBundle(u))
                 => /\ (u \in DOMAIN server.identity_key /\ Pool(server, u) = <<>>)
                           => /\ last'.result.ok
                              /\ last'.result.val.otk = None
                              /\ last'.result.val.identity_key = server.identity_key[u]
                              /\ last'.result.val.spk = server.current_pre_key[u]
                    /\ u \notin DOMAIN server.identity_key
                           => /\ ~last'.result.ok
                              /\ server'.one_time_pre_keys = server.one_time_pre_keys
          /\ (last'.op = "request_pre_keys" /\ DbRequestPreKeys(u))
                 => /\ (u \in DOMAIN db.user /\ PreKeyRows(db, u) = {})
                           => /\ last'.result.ok
                              /\ last'.result.val.otk = None
                              /\ last'.result.val.identity_key = db.user[u].key
                              /\ last'.result.val.spk = db.user[u].current_pre_key
                    /\ u \notin DOMAIN db.user
                           => /\ ~last'.result.ok
                              /\ last'.result.err = "user not found"
                              /\ db'.pre_key = db.pre_key]_vars

\* a request that found the pool of a registered identity drained
C23_Witness ==
    /\ last.op \in {"fetch_prekey_bundle", "request_pre_keys"}
    /\ last.result.ok
    /\ last.result.val.otk = None
    /\ (DOMAIN audit.issued[last.identity]) \cup (DOMAIN audit.db_issued[last.identity]) # {}

\* C24: a get_messages call either returns every message queued for the identity and
\* deletes exactly those rows, or returns an error and deletes none
C24_RetrievalAllOrNothing ==
    [][\A u \in Identity :
          (last'.op = "get_messages" /\ DbGetMessages(u))
              => LET deleted == (DOMAIN db.message) \ (DOMAIN db'.message)
                 IN /\ DOMAIN db'.message \subseteq DOMAIN db.message
                    /\ \A m \in DOMAIN db'.message : db'.message[m] = db.message[m]
                    /\ IF last'.result.ok
                       THEN /\ deleted = MessageRows(db, u)
                            /\ Len(last'.result.val) = Cardinality(deleted)
                            /\ {encode_to_vec(last'.result.val[i]) :
                                    i \in DOMAIN last'.result.val} = deleted
                       ELSE deleted = {}]_vars

\* a retrieval for one identity while another identity has messages queued
C24_Witness ==
    /\ last.op = "get_messages"
    /\ last.result.ok
    /\ Len(last.result.val) >= 1
    /\ DOMAIN db.message # {}

\* the secret key SK the sender half derives from the bundle the server hands out
SenderSecretKey(a, recipient_identity) ==
    LET f == ServerFetch(server, recipient_identity, FALSE)
    IN x3dh_initiate_send_sk(f.result.val.identity_key, f.result.val.spk, f.result.val.otk,
                             clients[a].identity_key, rng).val.secret_key

\* C25: after a successful sender half for a recipient, the sender's session map holds
\* for the recipient the secret key SK the half derived, and the ciphertext is
\* encrypted under the key the receiver makes of SK (the cipher keyed with SK)
C25_SessionKeyIsSk ==
    [][\A a \in Senders, r \in Receivers, message \in Plaintext :
          (/\ last'.op = "x3dh_initiate_send"
           /\ InitiateSend(a, a, r, message, FALSE)
           /\ last'.result.ok)
              => /\ r \in DOMAIN clients'[a].session_keys
                 /\ clients'[a].session_keys[r] = SenderSecretKey(a, r)
                 /\ last'.result.val.ciphertext.key = SenderSecretKey(a, r)]_vars

\* C26: the input key material of the HKDF is 32 bytes of 0xFF followed by the key
\* material KM the KDF was called with
C26_DomainSeparator ==
    (probe.done /\ probe.send.ok)
        => LET ikm == probe.send.val.secret_key.ikm
           IN /\ Len(ikm) >= 32
              /\ \A i \in 1..32 : ikm[i] = 255
              /\ kdf(SubSeq(ikm, 33, Len(ikm))) = probe.send.val.secret_key

(***************************************************************************)
(* The native client (src/native/client): the main loop and the listener   *)
(* task share the key store behind Arc<Mutex<MemoryClient>> and the output *)
(* channel mpsc::channel(100).                                             *)
(***************************************************************************)
\* the capacity of the output channel, scaled down from 100
ChannelCapacity == 2

\* the number of messages the stream delivers
MaxIncoming == 4

\* the number of commands the user types
MaxCommands == 2

NativeUnchanged == UNCHANGED <<server, clients, rng, bundles, retrieved, frame, last, audit, db, clock, calls, probe>>

\* select!: cli_rx.recv() yields a command and the main loop enters message(), where it
\* awaits stub.request_pre_keys
MainCommand ==
    /\ native.main = "select"
    /\ native.commands < MaxCommands
    /\ native' = [native EXCEPT !.main = "request", !.commands = @ + 1]
    /\ NativeUnchanged

\* select!: rx.recv() yields a message of the output channel, which is printed
MainDrain ==
    /\ native.main = "select"
    /\ native.channel > 0
    /\ native' = [native EXCEPT !.channel = @ - 1]
    /\ NativeUnchanged

\* message(): the response of request_pre_keys arrives; next is x3dh_client.lock().await
MainRequestDone ==
    /\ native.main = "request"
    /\ native' = [native EXCEPT !.main = "lock"]
    /\ NativeUnchanged

\* message(): the lock is acquired, get_identity_key and x3dh_initiate_send run, and the
\* guard, a temporary of the statement, is dropped; next is stub.send_message
MainLock ==
    /\ native.main = "lock"
    /\ native.lock = None
    /\ native' = [native EXCEPT !.main = "send"]
    /\ NativeUnchanged

\* message(): send_message returns and the main loop is back at its select
MainSendDone ==
    /\ native.main = "send"
    /\ native' = [native EXCEPT !.main = "select"]
    /\ NativeUnchanged

\* get_messages: stream.message().await yields the next message
ListenerNext ==
    /\ native.listener = "stream"
    /\ native.incoming < MaxIncoming
    /\ native' = [native EXCEPT !.listener = "lock", !.incoming = @ + 1]
    /\ NativeUnchanged

\* get_messages: x3dh_client.lock().await returns the guard, bound to a variable of the
\* loop body; the one-time key is wiped and x3dh_initiate_recv runs. When it succeeds
\* the task goes on to tx.send with the guard alive; when it fails `?` returns from the
\* task, which drops the guard
ListenerLock(ok) ==
    /\ native.listener = "lock"
    /\ native.lock = None
    /\ native' = IF ok THEN [native EXCEPT !.listener = "send", !.lock = Some("listener")]
                 ELSE [native EXCEPT !.listener = "done"]
    /\ NativeUnchanged

\* get_messages: tx.send(message).await completes once the channel has a free slot; the
\* loop body ends, the guard is dropped and the task awaits the stream again
ListenerSend ==
    /\ native.listener = "send"
    /\ native.channel < ChannelCapacity
    /\ native' = [native EXCEPT !.listener = "stream", !.channel = @ + 1, !.lock = None]
    /\ NativeUnchanged

NextNative ==
    \/ MainCommand
    \/ MainDrain
    \/ MainRequestDone
    \/ MainLock
    \/ MainSendDone
    \/ ListenerNext
    \/ \E ok \in BOOLEAN : ListenerLock(ok)
    \/ ListenerSend

SpecNative == Init /\ [][NextNative]_vars

\* the runtime runs every task that can take a step, and every request to the server
\* is answered
SpecNativeLive ==
    /\ SpecNative
    /\ WF_vars(MainDrain)
    /\ WF_vars(MainRequestDone)
    /\ WF_vars(MainLock)
    /\ WF_vars(MainSendDone)
    /\ WF_vars(\E ok \in BOOLEAN : ListenerLock(ok))
    /\ WF_vars(ListenerSend)

\* C27: the listener task does not hold the key-store lock while it awaits the next
\* stream message or the send on the output channel
C27_NoLockAcrossAwait ==
    native.listener \in {"stream", "send"} => native.lock # Some("listener")

\* C30: every message() call that awaits the lock acquires it, and every tx.send of
\* the listener completes
C30_NoDeadlock ==
    /\ (native.main = "lock") ~> (native.main = "send")
    /\ (native.listener = "send") ~> (native.listener = "stream")

(***************************************************************************)
(* Batches of one-time keys: add_one_time_keys takes any Vec of public     *)
(* keys, among them keys that are in the table already.                    *)
(***************************************************************************)
\* the public keys the clients have generated
KnownKeys == UNION {{b.pre_keys[i] : i \in DOMAIN b.pre_keys} : b \in bundles}

\* the batches callers submit: one or two of those keys
Batches == {<<k>> : k \in KnownKeys} \cup {<<k1, k2>> : k1 \in KnownKeys, k2 \in KnownKeys}

\* storage.add_one_time_keys(identity, pre_keys)
DbAddBatch(identity, pre_keys) ==
    /\ \A i \in DOMAIN pre_keys : Counted(audit.db_added[identity], pre_keys[i]) < MaxAdds
    /\ LET r == SqliteStorage_add_one_time_keys(db, identity, pre_keys, clock)
           new == SelectSeq(pre_keys,
                            LAMBDA k : k \in DOMAIN r.db.pre_key /\ k \notin DOMAIN db.pre_key)
       IN /\ db' = r.db
          /\ audit' = [audit EXCEPT !.db_added[identity] = CountAll(@, new),
                                    !.db_order[identity] = @ \o new]
          /\ last' = [op |-> "add_one_time_keys", identity |-> identity,
                      pre_keys |-> pre_keys, result |-> r.result]
    /\ UNCHANGED <<native, server, clients, rng, bundles, retrieved, frame, clock, calls, probe>>

NextBatch ==
    \/ \E c \in Receivers, num_keys \in 1..MaxRows :
           Drawn + num_keys <= MaxRows /\ AddOneTimeKeys(c, num_keys)
    \/ \E identity \in Receivers : DbAddUser(identity)
    \/ \E identity \in Receivers, pre_keys \in Batches : DbAddBatch(identity, pre_keys)
    \/ \E identity \in Receivers : DbPopOneTimeKey(identity)

SpecBatch == Init /\ [][NextBatch]_vars

\* C28: an add_one_time_keys call that returns an error has added none of the keys of
\* its batch: the pre_key table is as it was before the call
C28_BatchIsAtomic ==
    [][\A u \in Identity, pre_keys \in Batches :
          (/\ last'.op = "add_one_time_keys"
           /\ DbAddBatch(u, pre_keys)
           /\ ~last'.result.ok)
              => db'.pre_key = db.pre_key]_vars

\* C29: after add_one_time_keys(n) the returned list has n public keys, each with its
\* secret in the client's map, where fetch_wipe_one_time_secret_key returns it once and
\* fails with UnknownOneTimeKey the second time; every entry the map held before is still
\* there, and the identity key, the signed-prekey secret and the other clients are as before
C29_ReplenishKeepsState ==
    [][\A c \in Identity, num_keys \in 1..MaxDraws :
          (last'.op = "add_one_time_keys" /\ AddOneTimeKeys(c, num_keys)) =>
              LET pre_keys == last'.result.val.pre_keys
                  before == clients[c].one_time_pre_keys
                  after == clients'[c].one_time_pre_keys
              IN /\ Len(pre_keys) = num_keys
                 /\ \A i \in DOMAIN pre_keys :
                        LET once == fetch_wipe_one_time_secret_key(after, pre_keys[i])
                            twice == fetch_wipe_one_time_secret_key(once.one_time_pre_keys,
                                                                    pre_keys[i])
                        IN /\ pre_keys[i] \in DOMAIN after
                           /\ PublicKeyFrom(after[pre_keys[i]]) = pre_keys[i]
                           /\ once.result = Ok(after[pre_keys[i]])
                           /\ twice.result = Err("UnknownOneTimeKey")
                 /\ \A k \in DOMAIN before : k \in DOMAIN after /\ after[k] = before[k]
                 /\ clients'[c].identity_key = clients[c].identity_key
                 /\ clients'[c].pre_key = clients[c].pre_key
                 /\ \A d \in Identity \ {c} : clients'[d] = clients[d]]_vars

\* a replenishment of a client that held one-time secrets before it
C29_Witness ==
    /\ last.op = "add_one_time_keys"
    /\ \A i \in DOMAIN last.result.val.pre_keys :
           last.result.val.pre_keys[i] \in DOMAIN clients[last.client].one_time_pre_keys
    /\ Cardinality(DOMAIN clients[last.client].one_time_pre_keys)
           > Len(last.result.val.pre_keys)

(***************************************************************************)
(* The native client's receive task: listen and get_messages               *)
(* (native/client/src/lib.rs).  Message::try_from and the stateless        *)
(* x3dh_initiate_send / x3dh_initiate_recv of the protocol crate follow    *)
(* the X3DH engine of the specification.                                   *)
(***************************************************************************)
\* the number of messages the server streams to the client
MaxStream == 3

\* protocol::x3dh::x3dh_initiate_send for a recipient whose keys the sender holds: the
\* X3dhMessage put on the wire (every field of the proto is optional)
X3dhMessage_from(recipient, sender_key, otk, ephemeral_secret, message) ==
    LET identity_key == verifying_key(recipient.identity_key)
        sk == x3dh_initiate_send_sk(identity_key, get_spk(recipient), otk, sender_key,
                                    ephemeral_secret)
        associated_data == <<VerifyingKey_to_bytes(verifying_key(sender_key)),
                             VerifyingKey_to_bytes(identity_key)>>
    IN [sender_identity_key |-> Some(verifying_key(sender_key)),
        ephemeral_key |-> Some(sk.val.ephemeral_key),
        otk |-> otk,
        ciphertext |-> Some(encrypt_data(message, associated_data, sk.val.secret_key))]

\* impl TryFrom<X3dhMessage> for Message: the key and ciphertext fields must be there
Message_try_from(wire) ==
    IF IsSome(wire.sender_identity_key) /\ IsSome(wire.ephemeral_key) /\ IsSome(wire.ciphertext)
    THEN Ok([sender_identity_key |-> Unwrap(wire.sender_identity_key),
             ephemeral_key |-> Unwrap(wire.ephemeral_key),
             otk |-> wire.otk,
             ciphertext |-> Unwrap(wire.ciphertext)])
    ELSE Err("InvalidEncoding")

\* protocol::x3dh::x3dh_initiate_recv(identity_key, pre_key, sender_identity_key,
\* ephemeral_key, otk, ciphertext) with otk the one-time SECRET if there is one: the
\* pair (session key, plaintext)
protocol_x3dh_initiate_recv(identity_key, pre_key, sender_identity_key, ephemeral_key, otk, ciphertext) ==
    LET dh1 == diffie_hellman(pre_key, to_montgomery(sender_identity_key))
        dh2 == diffie_hellman(to_scalar_bytes(identity_key), ephemeral_key)
        dh3 == diffie_hellman(pre_key, ephemeral_key)
        sk == IF IsSome(otk)
              THEN kdf(<<dh1, dh2, dh3, diffie_hellman(Unwrap(otk), ephemeral_key)>>)
              ELSE kdf(<<dh1, dh2, dh3>>)
        associated_data == <<VerifyingKey_to_bytes(sender_identity_key),
                             VerifyingKey_to_bytes(verifying_key(identity_key))>>
        d == decrypt_data(ciphertext, associated_data, sk)
    IN IF d.ok THEN Ok(<<sk, d.val>>) ELSE d

\* the receive task before its first stream.message(): nothing read, nothing forwarded
Listening_new ==
    [stream |-> <<>>, ended |-> FALSE, pos |-> 0, forwarded |-> <<>>, result |-> None]

\* a faulty loop that logs a failing message and goes on with the next one
get_messages_skipping(listening, client) ==
    IF listening.pos = Len(listening.stream)
    THEN [listening |-> [listening EXCEPT !.result = Some(Ok(<<>>))], client |-> client]
    ELSE
    LET taken == [listening EXCEPT !.pos = @ + 1]
        message == Message_try_from(listening.stream[listening.pos + 1])
        w == IF message.ok /\ IsSome(message.val.otk)
             THEN fetch_wipe_one_time_secret_key(client.one_time_pre_keys,
                                                 Unwrap(message.val.otk))
             ELSE [result |-> Ok(0), one_time_pre_keys |-> client.one_time_pre_keys]
        wiped == [client EXCEPT !.one_time_pre_keys = w.one_time_pre_keys]
        r == protocol_x3dh_initiate_recv(client.identity_key, client.pre_key,
                                         message.val.sender_identity_key,
                                         message.val.ephemeral_key,
                                         IF IsSome(message.val.otk)
                                         THEN Some(w.result.val) ELSE None,
                                         message.val.ciphertext)
    IN IF ~message.ok THEN [listening |-> taken, client |-> client]
       ELSE IF ~w.result.ok THEN [listening |-> taken, client |-> client]
       ELSE IF ~r.ok THEN [listening |-> taken, client |-> wiped]
       ELSE [listening |-> [taken EXCEPT !.forwarded = Append(@, r.val[2])],
             client |-> wiped]

\* get_messages: one turn of `while let Some(message) = stream.message().await?`, from
\* the message (or the end of the stream) to tx.send or to the `?` that returns
get_messages(listening, client) ==
    IF listening.pos = Len(listening.stream)
    THEN [listening |-> [listening EXCEPT !.result = Some(Ok(<<>>))], client |-> client]
    ELSE
    LET taken == [listening EXCEPT !.pos = @ + 1]
        \* message.try_into()?
        message == Message_try_from(listening.stream[listening.pos + 1])
        \* Some(x3dh_client.fetch_wipe_one_time_secret_key(&otk)?)
        w == IF message.ok /\ IsSome(message.val.otk)
             THEN fetch_wipe_one_time_secret_key(client.one_time_pre_keys,
                                                 Unwrap(message.val.otk))
             ELSE [result |-> Ok(0), one_time_pre_keys |-> client.one_time_pre_keys]
        wiped == [client EXCEPT !.one_time_pre_keys = w.one_time_pre_keys]
        \* x3dh_initiate_recv(..)?
        r == protocol_x3dh_initiate_recv(client.identity_key, client.pre_key,
                                         message.val.sender_identity_key,
                                         message.val.ephemeral_key,
                                         IF IsSome(message.val.otk)
                                         THEN Some(w.result.val) ELSE None,
                                         message.val.ciphertext)
    IN IF ~message.ok
       THEN [listening |-> [taken EXCEPT !.result = Some(Err(message.err))],
             client |-> client]
       ELSE IF ~w.result.ok
       THEN [listening |-> [taken EXCEPT !.result = Some(Err(w.result.err))],
             client |-> client]
       ELSE IF ~r.ok
       THEN [listening |-> [taken EXCEPT !.result = Some(Err(r.err))], client |-> wiped]
       \* tx.send(message).await?
       ELSE [listening |-> [taken EXCEPT !.forwarded = Append(@, r.val[2])],
             client |-> wiped]

ListenUnchanged == UNCHANGED <<native, server, retrieved, frame, audit, db, clock, calls>>

\* register: the one add_one_time_keys of main, before the listener is spawned
ListenRegister(c, num_keys) ==
    /\ probe.stream = <<>>
    /\ bundles = {}
    /\ Drawn + num_keys <= MaxRows
    /\ AddOneTimeKeys(c, num_keys)

\* the server streams one more message for c: what sender a produced for one of c's
\* one-time keys or for none, as it was sent or with a byte of the ciphertext flipped, or
\* a message without one-time key whose ephemeral key is missing
StreamMessage(c, a, otk, message, flipped, cut) ==
    /\ ~probe.ended
    /\ Len(probe.stream) < MaxStream
    /\ cut => (~flipped /\ otk = None)
    /\ LET sent == X3dhMessage_from(clients[c], clients[a].identity_key, otk, rng, message)
           wire == [sent EXCEPT !.ciphertext = IF flipped THEN Some(Tampered(Unwrap(@))) ELSE @,
                                !.ephemeral_key = IF cut THEN None ELSE @]
       IN /\ probe' = [probe EXCEPT !.stream = Append(@, wire)]
          /\ last' = [op |-> "stream", client |-> c, message |-> wire]
    /\ rng' = rng + 1
    /\ UNCHANGED <<clients, bundles>>
    /\ ListenUnchanged

\* the server ends the stream
StreamEnd ==
    /\ ~probe.ended
    /\ probe' = [probe EXCEPT !.ended = TRUE]
    /\ last' = [op |-> "stream_end"]
    /\ UNCHANGED <<clients, bundles, rng>>
    /\ ListenUnchanged

\* the receive task of client c takes its next turn of the loop
GetMessages(c) ==
    /\ probe.result = None
    /\ probe.pos < Len(probe.stream) \/ probe.ended
    /\ LET r == get_messages([stream |-> probe.stream, ended |-> probe.ended,
                              pos |-> probe.pos, forwarded |-> probe.forwarded,
                              result |-> probe.result], clients[c])
       IN /\ probe' = r.listening
          /\ clients' = [clients EXCEPT ![c] = r.client]
          /\ last' = [op |-> "get_messages", client |-> c, result |-> r.listening.result]
    /\ UNCHANGED <<bundles, rng>>
    /\ ListenUnchanged

InitListen == InitState /\ probe = Listening_new

NextListen ==
    \/ \E c \in Receivers, num_keys \in 1..MaxRows : ListenRegister(c, num_keys)
    \/ \E c \in Receivers, a \in Senders, message \in Plaintext :
           \E otk \in {None} \cup {Some(k) : k \in OneTimeKeys} :
               \E flipped \in BOOLEAN, cut \in BOOLEAN :
                   StreamMessage(c, a, otk, message, flipped, cut)
    \/ StreamEnd
    \/ \E c \in Receivers : GetMessages(c)

SpecListen == InitListen /\ [][NextListen]_vars

\* what a streamed message carries when it is well formed and intact
Carried(wire) == Unwrap(wire.ciphertext).msg

\* the message at position i of the stream fails in the state the client is in
FailsNow(wire, client) ==
    \/ ~IsSome(wire.sender_identity_key)
    \/ ~IsSome(wire.ephemeral_key)
    \/ ~IsSome(wire.ciphertext)
    \/ IsSome(wire.otk) /\ Unwrap(wire.otk) \notin DOMAIN client.one_time_pre_keys
    \/ ~Unwrap(wire.ciphertext).intact

\* C31: the first streamed message that fails (malformed, unknown one-time key or
\* decryption failure) ends get_messages with an error; after that no message is read,
\* decrypted or forwarded, and the messages forwarded are exactly those before it, in
\* stream order
C31_FirstFailureEndsLoop ==
    [][/\ \A c \in Receivers :
              (last'.op = "get_messages" /\ GetMessages(c) /\ probe.pos < Len(probe.stream)) =>
                  LET wire == probe.stream[probe.pos + 1]
                  IN IF FailsNow(wire, clients[c])
                     THEN /\ IsSome(probe'.result) /\ ~Unwrap(probe'.result).ok
                          /\ probe'.forwarded = probe.forwarded
                     ELSE /\ probe'.result = None
                          /\ probe'.forwarded = Append(probe.forwarded, Carried(wire))
       /\ (IsSome(probe.result) /\ ~Unwrap(probe.result).ok) =>
              /\ probe'.pos = probe.pos
              /\ probe'.forwarded = probe.forwarded
              /\ probe'.result = probe.result
              /\ clients' = clients
       /\ Len(probe'.forwarded) =
              IF IsSome(probe'.result) /\ ~Unwrap(probe'.result).ok
              THEN probe'.pos - 1 ELSE probe'.pos
       /\ \A i \in DOMAIN probe'.forwarded :
              probe'.forwarded[i] = Carried(probe'.stream[i])]_vars

\* the loop has ended with an error at a message that had forwarded messages before it
\* and has streamed messages after it
C31_Witness ==
    /\ IsSome(probe.result)
    /\ ~Unwrap(probe.result).ok
    /\ probe.forwarded # <<>>
    /\ probe.pos < Len(probe.stream)

(***************************************************************************)
(* Honest traffic: the owner's client publishes its one-time keys to the   *)
(* InMemoryServer, senders ask the server for a bundle and send what the   *)
(* sender half produces, and the receive task takes every streamed message *)
(* once, in order.                                                         *)
(***************************************************************************)
\* a sender asks the directory for c's bundle (fetch_prekey_bundle pops a one-time key)
\* and sends what the sender half makes of it; the server streams it to c unchanged.
\* The identity key and signed prekey of the bundle are those SetSpk stored for c.
HonestSend(c, a, message) ==
    /\ probe.result = None
    /\ Len(probe.stream) < MaxStream
    /\ LET f == fetch_prekey_bundle(server, c)
       IN /\ f.result.ok
          /\ server' = f.server
          /\ probe' = [probe EXCEPT !.stream =
                          Append(@, X3dhMessage_from(clients[c], clients[a].identity_key,
                                                     f.result.val.otk, rng, message))]
          /\ last' = [op |-> "send", client |-> a, recipient_identity |-> c,
                      otk |-> f.result.val.otk]
    /\ rng' = rng + 1
    /\ UNCHANGED <<native, clients, bundles, retrieved, frame, audit, db, clock, calls>>

NextHonest ==
    \/ \E identity \in Receivers : SetSpk(identity, FALSE)
    \/ \E c \in Receivers, num_keys \in 1..MaxRows :
           Drawn + num_keys <= MaxRows /\ AddOneTimeKeys(c, num_keys)
    \/ \E identity \in Receivers, b \in bundles : PublishOtkBundle(identity, b, FALSE)
    \/ \E c \in Receivers, a \in Senders, message \in Plaintext : HonestSend(c, a, message)
    \/ \E c \in Receivers : GetMessages(c)

SpecHonest == InitListen /\ [][NextHonest]_vars

\* the one-time keys named by the messages streamed to the client and not yet taken
NamedByQueued == {Unwrap(probe.stream[i].otk) : i \in {j \in DOMAIN probe.stream : j > probe.pos /\ IsSome(probe.stream[j].otk)}}

\* C32: with one-time keys published by the owner's client only and every message
\* received once, each one-time key in U's directory pool or named by a message
\* queued for U has its secret in U's client map, and no receive fails with
\* UnknownOneTimeKey
C32_SecretsOutliveDirectory ==
    \A u \in Receivers :
        /\ \A i \in DOMAIN Pool(server, u) :
               Pool(server, u)[i] \in DOMAIN clients[u].one_time_pre_keys
        /\ \A k \in NamedByQueued : k \in DOMAIN clients[u].one_time_pre_keys
        /\ probe.result # Some(Err("UnknownOneTimeKey"))

(***************************************************************************)
(* x3dh_initiate_recv as one call on `client: &mut dyn Client`, and the    *)
(* session map around it                                                   *)
(***************************************************************************)
\* a faulty receive that empties the session map when decryption fails
x3dh_initiate_recv_clearing(client, sender, sender_identity_key, ephemeral_key, one_time_key, ciphertext) ==
    LET sk == x3dh_initiate_recv_sk(client.one_time_pre_keys, sender_identity_key,
                                    ephemeral_key, one_time_key, client.identity_key,
                                    client.pre_key)
        wiped == [client EXCEPT !.one_time_pre_keys = sk.one_time_pre_keys]
    IN IF ~sk.result.ok THEN [result |-> sk.result, client |-> wiped]
       ELSE LET recorded == set_session_key(client.session_keys, sender, sk.result.val)
                fin == x3dh_initiate_recv_finish(recorded, sender, sender_identity_key,
                                                 client.identity_key, sk.result.val,
                                                 ciphertext)
            IN [result |-> fin.result,
                client |-> [wiped EXCEPT !.session_keys =
                               IF fin.result.ok THEN fin.session_keys ELSE EmptyMap]]

\* fn x3dh_initiate_recv: the result and the client after the call
x3dh_initiate_recv(client, sender, sender_identity_key, ephemeral_key, one_time_key, ciphertext) ==
    LET \* x3dh_initiate_recv_sk(client, ..)?
        sk == x3dh_initiate_recv_sk(client.one_time_pre_keys, sender_identity_key,
                                    ephemeral_key, one_time_key, client.identity_key,
                                    client.pre_key)
        wiped == [client EXCEPT !.one_time_pre_keys = sk.one_time_pre_keys]
    IN IF ~sk.result.ok THEN [result |-> sk.result, client |-> wiped]
       ELSE LET \* client.set_session_key(sender.clone(), &secret_key)
                recorded == set_session_key(client.session_keys, sender, sk.result.val)
                fin == x3dh_initiate_recv_finish(recorded, sender, sender_identity_key,
                                                 client.identity_key, sk.result.val,
                                                 ciphertext)
            IN [result |-> fin.result,
                client |-> [wiped EXCEPT !.session_keys = fin.session_keys]]

\* the ciphertext of message m sealed again with the key and the associated data that
\* client derives for it: an input that x3dh_initiate_recv decrypts
Resealed(client, m) ==
    LET sk == x3dh_initiate_recv_sk(client.one_time_pre_keys, m.identity_key,
                                    m.ephemeral_key, m.otk, client.identity_key,
                                    client.pre_key)
    IN IF sk.result.ok
       THEN encrypt_data(m.ciphertext.msg,
                         <<VerifyingKey_to_bytes(m.identity_key),
                           SigningKey_to_bytes(client.identity_key)>>,
                         sk.result.val)
       ELSE m.ciphertext

\* the shapes of ciphertext handed to the call
CiphertextKinds == {"sent", "flipped", "resealed"}

\* x3dh_initiate_recv(client c, sender, fields of the i-th message c holds) with the
\* ciphertext as it was sent, with a byte flipped, or sealed for the receiver; the call
\* record keeps the session map the client had when it was called
Recv(c, sender, i, kind) ==
    /\ frame = Idle
    /\ i \in DOMAIN retrieved[c]
    /\ LET m == retrieved[c][i]
           ciphertext == IF kind = "flipped" THEN Tampered(m.ciphertext)
                         ELSE IF kind = "resealed" THEN Resealed(clients[c], m)
                         ELSE m.ciphertext
           r == x3dh_initiate_recv(clients[c], sender, m.identity_key, m.ephemeral_key,
                                   m.otk, ciphertext)
       IN /\ clients' = [clients EXCEPT ![c] = r.client]
          /\ last' = [op |-> "x3dh_initiate_recv", client |-> c, sender |-> sender,
                      sender_identity_key |-> m.identity_key, otk |-> m.otk,
                      ciphertext |-> ciphertext, before |-> clients[c].session_keys,
                      result |-> r.result]
    /\ UNCHANGED <<native, server, rng, bundles, retrieved, frame, audit, db, clock, calls, probe>>

NextSession ==
    \/ \E identity \in Receivers : SetSpk(identity, FALSE)
    \/ \E c \in Receivers, num_keys \in 1..MaxRows :
           Drawn + num_keys <= MaxRows /\ AddOneTimeKeys(c, num_keys)
    \/ \E identity \in Receivers, b \in bundles : PublishOtkBundle(identity, b, FALSE)
    \/ \E a \in Senders, r \in Receivers, message \in Plaintext :
           Drawn + 1 <= MaxRows /\ InitiateSend(a, a, r, message, FALSE)
    \/ SendMessage
    \/ \E identity \in Receivers : RetrieveMessages(identity)
    \/ \E c \in Receivers, sender \in Identity, kind \in CiphertextKinds :
           \E i \in DOMAIN retrieved[c] : Recv(c, sender, i, kind)

SpecSession == Init /\ [][NextSession]_vars

\* C33: x3dh_initiate_recv for sender S leaves the session keys of every other peer, and
\* the other clients, as they were, whether it succeeds or fails; when decryption fails
\* there is no entry for S afterwards, whatever the map held for S before
C33_SessionMapFrame ==
    [][\A c \in Receivers, S \in Identity, kind \in CiphertextKinds :
          \A i \in DOMAIN retrieved[c] :
              (last'.op = "x3dh_initiate_recv" /\ Recv(c, S, i, kind)) =>
                  LET before == clients[c].session_keys
                      after == clients'[c].session_keys
                  IN /\ \A peer \in ((DOMAIN before) \cup (DOMAIN after)) \ {S} :
                            /\ peer \in DOMAIN before
                            /\ peer \in DOMAIN after
                            /\ after[peer] = before[peer]
                     /\ \A d \in Identity \ {c} : clients'[d] = clients[d]
                     /\ (~last'.result.ok /\ last'.result.err = "DecryptFailed")
                            => S \notin DOMAIN after
                     /\ last'.result.ok => S \in DOMAIN after]_vars

\* a receive for S has failed to decrypt in a client that held session keys for S and
\* for another peer when it was called
C33_Witness ==
    /\ last.op = "x3dh_initiate_recv"
    /\ ~last.result.ok
    /\ last.result.err = "DecryptFailed"
    /\ last.sender \in DOMAIN last.before
    /\ DOMAIN last.before # {last.sender}
    /\ last.sender \notin DOMAIN clients[last.client].session_keys
    /\ DOMAIN clients[last.client].session_keys # {}

====
